---- MODULE Spec2Model ----
(***************************************************************************)
(* A model of my-mini-redis: the shared store (key-space, expiration       *)
(* index, purge worker and its Notify) and the pub/sub registry with the   *)
(* per-connection subscribe loop.                                          *)
(*                                                                         *)
(* Option<T> is a sequence: None is <<>> and Some(x) is <<x>>.             *)
(* Frames are tuples whose head is the variant: <<"Bulk", v>>, <<"Null">>, *)
(* <<"Integer", n>>; an Array frame of the pub/sub protocol is the tuple   *)
(* of its items: <<"subscribe", channel, count>>.                          *)
(***************************************************************************)
EXTENDS Integers, Sequences, FiniteSets, TLC

\* ---------------------------------------------------------------- bounds
\* The clock runs over 0..MaxTime; a SET carries a TTL in 0..MaxTtl ticks.
MaxTime == 1
MaxTtl == 1

Keys == {"foo", "bar"}
Values == {"v1", "v2"}
Handlers == {"h1", "h2"}

\* At most MaxOps client calls and PUBLISHes are issued. A broadcast channel
\* retains its last ChannelCapacity messages: the model's stand-in for the
\* 1024 of Db::subscibe. A Receiver can have two messages waiting, and
\* MaxOps PUBLISHes on one channel overflow it.
MaxOps == 3
ChannelCapacity == 2

Channels == {"hello", "world"}
Subs == {"s1", "s2"}
SubscribeLists == {<<"hello">>, <<"world">>, <<"hello", "world">>,
                   <<"hello", "hello">>}
UnsubscribeLists == {<<>>, <<"hello">>, <<"world">>}

None == <<>>
Some(x) == <<x>>

Durations == 0..MaxTtl
Instants == 0..(MaxTime + MaxTtl)

VARIABLES
    now,          \* Instant::now()
    entries,      \* State::entries: a function whose domain is the keys present
    expirations,  \* State::expirations: a set of <<when, key>>
    shutdown,     \* State::shutdown
    permit,       \* Notify: a stored permit
    waiter,       \* Notify: "none", "waiting" (registered), "notified"
    wpc,          \* purge worker: where it is in purge_expired_tasks
    wwhen,        \* purge worker: what purge_expired_keys returned
    hpc,          \* per handler: "idle", or "notify" (inside Db::set, mutex released)
    guard,        \* DbDropGuard: "held", "notify" (flag set, mutex released), "dropped"
    lastGet,      \* the latest GET served: <<its reply frame, the reply the history
                  \* of SETs and purges called for when it held the mutex>>, or <<>>
    lastSet,      \* history: per key, the value of the latest SET and whether it
                  \* carried a TTL (None: never set)
    purged,       \* history: the keys a purge pass removed since their latest SET
    discarded,    \* history: per key, the time left until the expiry that the
                  \* latest SET, if it carried no TTL, discarded
    outlived      \* history: the keys that a purge pass has met at or after
                  \* their discarded expiry

storeVars == <<now, entries, expirations, shutdown, permit, waiter, wpc, wwhen,
               hpc, guard, lastGet, lastSet, purged, discarded, outlived>>

VARIABLES
    pub_sub,      \* State::pub_sub: the channels that have a broadcast::Sender
    rxCount,      \* per channel, the Sender's count of live Receivers
    chanLog,      \* per channel, the messages the Sender accepted, in order
    hmode,        \* per connection, the handler: "normal", "pubsub", "closing"
                  \* (dropping its subscriptions), "closed"
    pending,      \* Subcribe::apply: self.channels, still to be subscribed
    newrx,        \* subscibe_to_channel: the Receiver db.subscibe returned,
                  \* not yet inserted in subscriptions (None: none)
    unsubq,       \* handle_command: unsubscribe.channels, still to be removed
    subs,         \* Subcribe::apply: subscriptions, the StreamMap in entry order,
                  \* each entry [ch, next, since]: the channel, its Receiver's
                  \* cursor and (history) the PUBLISH count when it was created
    out,          \* per connection, the frames the server wrote to it
    inbox,        \* per connection, the command frames sent and not yet read
    cmode,        \* per client: "client", "subscriber", "failed" (a call
                  \* returned Err), "dropped"
    ccall,        \* per client, the call in progress (None: none)
    clist,        \* Subscriber::subscribed_channels
    cread,        \* per client, how many frames of out it has read
    ops,          \* client calls and PUBLISHes issued so far
    lastPub,      \* the latest PUBLISH: <<its reply frame, the Receivers attached
                  \* to the channel while it held the mutex>>, or <<>>
    published,    \* history: the channel of every PUBLISH, in order; the n-th
                  \* PUBLISH carries the payload n
    acked,        \* history: per connection and channel, the PUBLISH count when
                  \* the acknowledgement of its present subscription was written
    lagged,       \* history: per connection, the channels whose Receiver lagged
    cmdg          \* history: per connection, the command the handler read last

pubsubVars == <<pub_sub, rxCount, chanLog, hmode, pending, newrx, unsubq, subs,
                out, inbox, cmode, ccall, clist, cread, ops, lastPub, published,
                acked, lagged, cmdg>>

\* the server: its listener, the connection limit, the handlers it spawns and
\* the shutdown of server::run
MaxConnections == 2

\* the connections that arrive, one more than the permits of the base model
Conns == 1..3

VARIABLES
    rpc,                  \* where server::run is: "select", "drain", "returned"
    shutdown_future,      \* TRUE once the shutdown future has completed
    notify_shutdown,      \* TRUE while the broadcast Sender is alive
    shutdown_complete_tx, \* number of live clones of the mpsc Sender
    available_permits,    \* permits left in limit_connections
    lpc,                  \* where Listener::run is
    backoff,              \* the local of Listener::accept
    waits,                \* the sleeps of the current call of accept, in seconds
    hst,                  \* where the task of each connection is
    is_shutdown,          \* the flag of each handler's Shutdown
    subscribed            \* TRUE once the handler has applied a SUBSCRIBE

serverVars == <<rpc, shutdown_future, notify_shutdown, shutdown_complete_tx,
                available_permits, lpc, backoff, waits, hst, is_shutdown,
                subscribed>>

\* a connection reading the frames a peer writes
MaxFrames == 2

VARIABLES
    sent,        \* the frames the peer writes, in order
    wire,        \* the bytes written and not yet read from the socket
    peer_closed, \* TRUE once the peer has closed its end
    buffer,      \* the read buffer of the Connection
    consumed,    \* the bytes removed from the front of the buffer so far
    received,    \* the frames read_frame has returned, in order
    rfpc         \* where read_frame is, or how it ended

codecVars == <<sent, wire, peer_closed, buffer, consumed, received, rfpc>>

\* a command turned into a frame by a client and back by the server
VARIABLES
    command,     \* the command given to into_frame, None before
    frame_of,    \* the frame into_frame made of it
    decoded      \* the result of from_frame on that frame, None before

commandVars == <<command, frame_of, decoded>>

\* the store mutex as Db::publish takes it
VARIABLES
    mutex,       \* shared.state: "free", or the handler holding the MutexGuard
    ppc,         \* where each handler is in Db::publish
    pch          \* the channel each handler publishes on

lockVars == <<mutex, ppc, pch>>

MaxCalls == 3

BufferSize == 2

Callers == {"t1", "t2"}

\* a BufferedClient: its cloned handles, the channel to the connection task,
\* the task, and the connection of the Client the task owns
VARIABLES
    issued,        \* the calls of get and set so far; a call's id is its index
    queue,         \* the mpsc channel: the ids of the messages buffered
    gone,          \* the calls whose future was dropped: oneshot rx is closed
    handles,       \* the callers whose BufferedClient handle is alive
    inflight,      \* the message run is working on, None at rx.recv()
    requests,      \* the connection, client to server: requests not yet applied
    responses,     \* the connection, server to client: frames not yet read
    remote,        \* the server's key-space
    delivered,     \* the responses the callers received over their oneshot
    sent_ids,       \* the ids of the requests written, in the order of writing
    connected,     \* FALSE once the server has closed the connection
    task_done      \* run has returned

bufferVars == <<issued, queue, gone, handles, inflight, requests, responses,
                remote, delivered, sent_ids, connected, task_done>>

\* the connections of the server, each with the client at its other end
VARIABLES
    sock,        \* the request frames a client wrote that its handler has not read
    closed,      \* "open", or how the client closed its socket: "fin" or "reset"
    reqs,        \* the frames read_frame returned to the handler, in order
    wbuf,        \* the BufWriter of the Connection: frames written, not flushed
    reps,        \* the frames flushed to the client, in order
    cur,         \* what the handler is at work on, and where in it, or None
    herr,        \* the result of Handler::run, None while it runs
    crx          \* the subscriptions of the handler: the StreamMap of its Receivers

connVars == <<sock, closed, reqs, wbuf, reps, cur, herr, crx>>

\* the latest reply of Get::apply: the key, the frame written, and whether the
\* entry found was past its expiry instant
VARIABLES replied

replyVars == <<replied>>

MaxPublished == 2

\* one connection of the server at the level of the bytes its handler writes
VARIABLES
    spc,        \* where the handler is: "run", "drain", "select", "unsub", "returned"
    swrite,     \* the calls write_frame has still to make on the BufWriter, or None
    sbuf,       \* the bytes in the BufWriter
    ssock,      \* the bytes flushed to the socket
    schannels,  \* Subcribe::channels, the channels still to subscribe to
    sunsub,     \* the channels handle_command has still to unsubscribe from
    ssubs,      \* the StreamMap, each entry with the messages its Receiver holds
    sinput,     \* the commands the client sent that the handler has not read
    speer,      \* "open", or how the client closed its socket: "fin" or "reset"
    ssignal,    \* the shutdown signal has been sent
    sentries,   \* the key-space of the store
    sres,       \* the result of Handler::run, None while it runs
    sapplied,   \* the frames of the write_frame calls begun, in order
    ssent,      \* the script of the client and how much of it is sent, or None
    spublished  \* the number of messages other connections have published

streamVars == <<spc, swrite, sbuf, ssock, schannels, sunsub, ssubs, sinput, speer,
                ssignal, sentries, sres, sapplied, ssent, spublished>>

otherThanReply == <<storeVars, pubsubVars, serverVars, codecVars, commandVars,
                    lockVars, bufferVars, connVars, streamVars>>

otherThanStream == <<storeVars, pubsubVars, serverVars, codecVars, commandVars,
                     lockVars, bufferVars, connVars, replyVars>>

\* the state of the handlers observed apart from the groups above
extraVars == <<replyVars, streamVars>>

otherThanStore == <<pubsubVars, serverVars, codecVars, commandVars, lockVars,
                    bufferVars, connVars, extraVars>>

otherThanPubSub == <<storeVars, serverVars, codecVars, commandVars, lockVars,
    bufferVars, connVars, extraVars>>

otherThanServer == <<storeVars, pubsubVars, codecVars, commandVars, lockVars,
    bufferVars, connVars, extraVars>>

otherThanCodec == <<storeVars, pubsubVars, serverVars, commandVars, lockVars,
    bufferVars, connVars, extraVars>>

otherThanCommand == <<storeVars, pubsubVars, serverVars, codecVars, lockVars,
    bufferVars, connVars, extraVars>>

otherThanLock == <<storeVars, serverVars, codecVars, commandVars,
    bufferVars, connVars, extraVars>>

otherThanBuffer == <<storeVars, pubsubVars, serverVars, codecVars, commandVars,
                     lockVars, connVars, extraVars>>

\* what the handlers of the connections leave alone
otherThanConn == <<codecVars, commandVars, lockVars, bufferVars, extraVars>>

storeRest == <<now, shutdown, wpc, wwhen, hpc, guard, lastGet, lastSet, purged,
               discarded, outlived>>

pubsubRest == <<hmode, pending, newrx, unsubq, subs, out, inbox, cmode, ccall,
                clist, cread, ops, lastPub, published, acked, lagged, cmdg>>

serverRest == <<rpc, shutdown_future, notify_shutdown, shutdown_complete_tx,
                available_permits, backoff, waits, is_shutdown, subscribed>>

vars == <<storeVars, pubsubVars, serverVars, codecVars, commandVars, lockVars,
          bufferVars, connVars, extraVars>>

\* ------------------------------------------------------------ the store

Entry(data, expires_at) == [data |-> data, expires_at |-> expires_at]

Min(S) == CHOOSE x \in S : \A y \in S : x <= y

\* State::next_expiration: the instant of the first pair of the BTreeSet
next_expiration(exps) ==
    IF exps = {} THEN None ELSE Some(Min({p[1] : p \in exps}))

\* the instant of the entry of the key is not later than t
Stale(ents, key, t) ==
    /\ key \in DOMAIN ents
    /\ ents[key].expires_at # None
    /\ ents[key].expires_at[1] <= t

\* a lookup that treats an entry past its expiry instant as absent
getUnexpired(ents, key) ==
    IF key \in DOMAIN ents /\ ~Stale(ents, key, now)
    THEN Some(ents[key].data) ELSE None

\* Db::get: entries.get(key).map(|entry| entry.data.clone())
get(ents, key) ==
    IF key \in DOMAIN ents THEN Some(ents[key].data) ELSE None

\* Get::apply: Bulk(value) if the key is present, Null otherwise
GetReply(ents, key) ==
    IF get(ents, key) # None THEN <<"Bulk", get(ents, key)[1]>> ELSE <<"Null">>

\* Db::set: expire.map(|duration| Instant::now() + duration)
SetExpiresAt(t, expire) ==
    IF expire = None THEN None ELSE Some(t + expire[1])

\* a SET that notifies only when the index is empty
SetNotifyIfEmpty(exps, expires_at) ==
    expires_at # None /\ exps = {}

\* a SET that also notifies on an expiry equal to the minimum of the index
SetNotifyOrEqual(exps, expires_at) ==
    IF expires_at = None THEN FALSE
    ELSE IF next_expiration(exps) = None THEN TRUE
    ELSE next_expiration(exps)[1] >= expires_at[1]

\* Db::set: notify = next_expiration().map(|e| e > when).unwrap_or(true),
\* computed only when the SET has an expiry, before the index is changed
SetNotify(exps, expires_at) ==
    IF expires_at = None THEN FALSE
    ELSE IF next_expiration(exps) = None THEN TRUE
    ELSE next_expiration(exps)[1] > expires_at[1]

\* a SET that keeps the entry already present (entry().or_insert())
SetEntriesIfAbsent(ents, key, value, expires_at) ==
    IF key \in DOMAIN ents THEN ents ELSE (key :> Entry(value, expires_at)) @@ ents

\* Db::set: state.entries.insert(key, Entry { data, expires_at })
SetEntries(ents, key, value, expires_at) ==
    (key :> Entry(value, expires_at)) @@ ents

\* a SET that leaves the index pair of the entry it replaces in place
SetExpirationsKeepPrev(ents, exps, key, expires_at) ==
    IF expires_at # None THEN exps \cup {<<expires_at[1], key>>} ELSE exps

\* Db::set: the pair of the previous entry is removed, then the new pair inserted
SetExpirations(ents, exps, key, expires_at) ==
    LET prev == IF key \in DOMAIN ents THEN Some(ents[key]) ELSE None
        removed == IF prev # None /\ prev[1].expires_at # None
                   THEN exps \ {<<prev[1].expires_at[1], key>>}
                   ELSE exps
    IN  IF expires_at # None THEN removed \cup {<<expires_at[1], key>>} ELSE removed

\* a purge loop that stops at the pair whose instant is now
ExpiredStrict(exps, t) == {p \in exps : p[1] < t}

\* Shared::purge_expired_keys, the loop: the pairs with when <= now
Expired(exps, t) == {p \in exps : p[1] <= t}

\* a purge pass that removes the pairs and leaves the entries
PurgeEntriesKeep(ents, exps, t) == ents

PurgeEntries(ents, exps, t) ==
    [k \in DOMAIN ents \ {p[2] : p \in Expired(exps, t)} |-> ents[k]]

PurgeExpirations(exps, t) == exps \ Expired(exps, t)

\* a notification that wakes a registered waiter and is lost without one
NotifyWaiters ==
    IF waiter = "waiting"
    THEN waiter' = "notified" /\ UNCHANGED permit
    ELSE UNCHANGED <<permit, waiter>>

\* Notify::notify_one: wake the registered waiter, or store a permit
NotifyOne ==
    IF waiter = "waiting"
    THEN waiter' = "notified" /\ UNCHANGED permit
    ELSE permit' = TRUE /\ UNCHANGED waiter

InitStore ==
    /\ now = 0
    /\ entries = <<>>
    /\ expirations = {}
    /\ shutdown = FALSE
    /\ permit = FALSE
    /\ waiter = "none"
    /\ wpc = "is_shutdown"
    /\ wwhen = None
    /\ hpc = [h \in Handlers |-> "idle"]
    /\ guard = "held"
    /\ lastGet = <<>>
    /\ lastSet = [k \in Keys |-> None]
    /\ purged = {}
    /\ discarded = [k \in Keys |-> None]
    /\ outlived = {}

TimeLeft(when, t) == IF when > t THEN when - t ELSE 0

\* time passes
Tick ==
    /\ now < MaxTime
    /\ now' = now + 1
    /\ discarded' = [k \in Keys |->
                       IF discarded[k] = None THEN None
                       ELSE Some(TimeLeft(discarded[k][1], 1))]
    /\ UNCHANGED <<entries, expirations, shutdown, permit, waiter, wpc, wwhen,
                   hpc, guard, lastGet, lastSet, purged, outlived>>
    /\ UNCHANGED otherThanStore

\* the reply the history calls for: the value of the latest SET of the key,
\* Null when the key was never set or a purge pass removed it since
ExpectedReply(key) ==
    IF lastSet[key] = None \/ key \in purged
    THEN <<"Null">>
    ELSE <<"Bulk", lastSet[key][1].data>>

\* Get::apply on handler h: Db::get under the mutex, then the reply
Get(h, key) ==
    /\ hpc[h] = "idle"
    /\ lastGet' = <<GetReply(entries, key), ExpectedReply(key)>>
    /\ UNCHANGED <<now, entries, expirations, shutdown, permit, waiter, wpc,
                   wwhen, hpc, guard, lastSet, purged, discarded, outlived>>
    /\ UNCHANGED otherThanStore

\* Db::set, the critical section (lines 158-210)
SetLocked(h, key, value, expire) ==
    LET expires_at == SetExpiresAt(now, expire)
        prevExp == IF key \in DOMAIN entries THEN entries[key].expires_at ELSE None
    IN  /\ hpc[h] = "idle"
        /\ entries' = SetEntries(entries, key, value, expires_at)
        /\ expirations' = SetExpirations(entries, expirations, key, expires_at)
        /\ hpc' = [hpc EXCEPT ![h] =
                     IF SetNotify(expirations, expires_at) THEN "notify" ELSE "idle"]
        /\ lastSet' = [lastSet EXCEPT ![key] =
                         Some([data |-> value, ttl |-> expire # None])]
        /\ purged' = purged \ {key}
        /\ discarded' = [discarded EXCEPT ![key] =
                            IF expire = None /\ prevExp # None
                            THEN Some(TimeLeft(prevExp[1], now))
                            ELSE None]
        /\ outlived' = outlived \ {key}
        /\ UNCHANGED <<now, shutdown, permit, waiter, wpc, wwhen, guard, lastGet>>
        /\ UNCHANGED otherThanStore

\* Db::set, after the mutex is released: background_task.notify_one()
SetNotified(h) ==
    /\ hpc[h] = "notify"
    /\ NotifyOne
    /\ hpc' = [hpc EXCEPT ![h] = "idle"]
    /\ UNCHANGED <<now, entries, expirations, shutdown, wpc, wwhen, guard,
                   lastGet, lastSet, purged, discarded, outlived>>
    /\ UNCHANGED otherThanStore

\* purge_expired_tasks: while !shared.is_shutdown()
WorkerCheck ==
    /\ wpc = "is_shutdown"
    /\ wpc' = IF shutdown THEN "done" ELSE "purge"
    /\ UNCHANGED <<now, entries, expirations, shutdown, permit, waiter, wwhen,
                   hpc, guard, lastGet, lastSet, purged, discarded, outlived>>
    /\ UNCHANGED otherThanStore

\* Shared::purge_expired_keys, one pass under the mutex
WorkerPurge ==
    /\ wpc = "purge"
    /\ wpc' = "poll"
    /\ IF shutdown
       THEN /\ wwhen' = None
            /\ UNCHANGED <<entries, expirations, purged, outlived>>
       ELSE /\ entries' = PurgeEntries(entries, expirations, now)
            /\ expirations' = PurgeExpirations(expirations, now)
            /\ wwhen' = next_expiration(PurgeExpirations(expirations, now))
            /\ purged' = purged \cup (DOMAIN entries \ DOMAIN entries')
            /\ outlived' = outlived \cup
                   {k \in Keys : discarded[k] = Some(0)}
    /\ UNCHANGED <<now, shutdown, permit, waiter, hpc, guard, lastGet, lastSet,
                   discarded>>
    /\ UNCHANGED otherThanStore

\* the first poll of select!{sleep_until(when), notified()} or of notified():
\* a stored permit or an elapsed deadline completes it, otherwise the worker
\* registers as the waiter
WorkerPoll ==
    /\ wpc = "poll"
    /\ \/ /\ permit
          /\ permit' = FALSE
          /\ wpc' = "is_shutdown"
          /\ UNCHANGED waiter
       \/ /\ wwhen # None /\ wwhen[1] <= now
          /\ wpc' = "is_shutdown"
          /\ UNCHANGED <<permit, waiter>>
       \/ /\ ~permit
          /\ ~(wwhen # None /\ wwhen[1] <= now)
          /\ wpc' = "waiting"
          /\ waiter' = "waiting"
          /\ UNCHANGED permit
    /\ UNCHANGED <<now, entries, expirations, shutdown, wwhen, hpc, guard,
                   lastGet, lastSet, purged, discarded, outlived>>
    /\ UNCHANGED otherThanStore

\* the worker is woken: by notify_one, or by the deadline; a notification
\* received by a Notified future that is dropped unconsumed is passed on
WorkerWake ==
    /\ wpc = "waiting"
    /\ \/ /\ waiter = "notified"
          /\ UNCHANGED permit
       \/ /\ wwhen # None /\ wwhen[1] <= now
          /\ permit' = (permit \/ waiter = "notified")
    /\ waiter' = "none"
    /\ wpc' = "is_shutdown"
    /\ UNCHANGED <<now, entries, expirations, shutdown, wwhen, hpc, guard,
                   lastGet, lastSet, purged, discarded, outlived>>
    /\ UNCHANGED otherThanStore

\* Db::shutdown_purge_task, the critical section
ShutdownLocked ==
    /\ guard = "held"
    /\ shutdown' = TRUE
    /\ guard' = "notify"
    /\ UNCHANGED <<now, entries, expirations, permit, waiter, wpc, wwhen, hpc,
                   lastGet, lastSet, purged, discarded, outlived>>
    /\ UNCHANGED otherThanStore

\* Db::shutdown_purge_task, after the mutex is released
ShutdownNotified ==
    /\ guard = "notify"
    /\ NotifyOne
    /\ guard' = "dropped"
    /\ UNCHANGED <<now, entries, expirations, shutdown, wpc, wwhen, hpc,
                   lastGet, lastSet, purged, discarded, outlived>>
    /\ UNCHANGED otherThanStore

Worker == WorkerCheck \/ WorkerPurge \/ WorkerPoll \/ WorkerWake

InitReply == replied = None

\* Get::apply on handler h: Db::get, then the reply frame is written
GetApply(h, key) ==
    /\ hpc[h] = "idle"
    /\ replied' = Some([key |-> key,
                        frame |-> GetReply(entries, key),
                        stale |-> Stale(entries, key, now)])
    /\ UNCHANGED otherThanReply

Expires == {None} \cup {Some(d) : d \in Durations}

\* the store under SETs, the clock and the purge worker
Next ==
    \/ Tick
    \/ \E h \in Handlers, k \in Keys : Get(h, k)
    \/ \E h \in Handlers, k \in Keys, v \in Values, e \in Expires :
          SetLocked(h, k, v, e)
    \/ \E h \in Handlers : SetNotified(h)
    \/ Worker

\* the store under SETs of one value, the clock and the purge worker: what
\* the purge worker's progress depends on
StoreNext ==
    \/ Tick
    \/ \E h \in Handlers, k \in Keys, e \in Expires : SetLocked(h, k, "v1", e)
    \/ \E h \in Handlers : SetNotified(h)
    \/ Worker

\* the store under SETs, GETs, the clock and the purge worker
ExpiryNext ==
    \/ StoreNext
    \/ \E h \in Handlers, k \in Keys : GetApply(h, k)

\* the store, its purge worker and the teardown of the drop guard
ShutdownNext ==
    \/ StoreNext
    \/ ShutdownLocked
    \/ ShutdownNotified

\* ------------------------------------------------- frames and commands
\* Bytes and String are TLA+ strings; NotUtf8 are the byte strings that are
\* no valid UTF-8. A Duration is a number of nanoseconds.
NotUtf8 == {"0xff"}

NanosPerMilli == 1000000
NanosPerSec == 1000000000

Simple(s) == <<"Simple", s>>
Error(s) == <<"Error", s>>
Integer(n) == <<"Integer", n>>
Bulk(b) == <<"Bulk", b>>
Null == <<"Null">>
Array(v) == <<"Array", v>>

\* Result: Ok(v) or Err(e)
Ok(v) == <<"Ok", v>>
Err(e) == <<"Err", e>>
IsOk(r) == r[1] = "Ok"

\* the strings of the model that differ from their lower-case form
CasePairs == {<<"foo", "FOO">>, <<"get", "GET">>, <<"ping", "PING">>,
              <<"px", "PX">>, <<"ex", "EX">>, <<"nx", "NX">>}

to_lowercase(s) ==
    IF \E p \in CasePairs : p[2] = s
    THEN (CHOOSE p \in CasePairs : p[2] = s)[1] ELSE s

to_uppercase(s) ==
    IF \E p \in CasePairs : p[1] = s
    THEN (CHOOSE p \in CasePairs : p[1] = s)[2] ELSE s

\* atoi::<u64> on the decimal strings of the model
atoi(s) ==
    IF \E n \in 0..9 : ToString(n) = s
    THEN Ok(CHOOSE n \in 0..9 : ToString(n) = s)
    ELSE Err("protocol error: invalid number")

Rest(parts) == IF parts = <<>> THEN <<>> ELSE Tail(parts)

\* Parse::next_string on the remaining parts
next_string(parts) ==
    IF parts = <<>> THEN Err("EndOfStream")
    ELSE IF Head(parts)[1] = "Simple" THEN Ok(Head(parts)[2])
    ELSE IF Head(parts)[1] = "Bulk"
         THEN IF Head(parts)[2] \in NotUtf8
              THEN Err("protocol error: invalid string")
              ELSE Ok(Head(parts)[2])
    ELSE Err("protocol error: expected simple frame or bulk frame")

\* Parse::next_bytes; an Integer yields its eight big-endian bytes
next_bytes(parts) ==
    IF parts = <<>> THEN Err("EndOfStream")
    ELSE IF Head(parts)[1] \in {"Simple", "Bulk"} THEN Ok(Head(parts)[2])
    ELSE IF Head(parts)[1] = "Integer"
         THEN Ok("be8:" \o ToString(Head(parts)[2]))
    ELSE Err("protocol error: expected simple frame or bulk frame")

\* Parse::next_int
next_int(parts) ==
    IF parts = <<>> THEN Err("EndOfStream")
    ELSE IF Head(parts)[1] \in {"Simple", "Bulk"} THEN atoi(Head(parts)[2])
    ELSE IF Head(parts)[1] = "Integer" THEN Ok(Head(parts)[2])
    ELSE Err("protocol error; expected int frame")

\* Each parse_frames yields Ok(<<command, parts left>>) or Err.

\* Get::parse_frames
Get_parse_frames(parts) ==
    IF IsOk(next_string(parts))
    THEN Ok(<< <<"Get", next_string(parts)[2]>>, Rest(parts) >>)
    ELSE next_string(parts)

\* Publish::parse_frames
Publish_parse_frames(parts) ==
    IF ~IsOk(next_string(parts)) THEN next_string(parts)
    ELSE IF ~IsOk(next_bytes(Rest(parts))) THEN next_bytes(Rest(parts))
    ELSE Ok(<< <<"Publish", next_string(parts)[2], next_bytes(Rest(parts))[2]>>,
               Rest(Rest(parts)) >>)

\* Set::parse_frames, from the option on: the parts after key and value
Set_parse_expire(parts) ==
    LET opt == next_string(parts)
        n == next_int(Rest(parts))
    IN  IF IsOk(opt)
        THEN IF to_uppercase(opt[2]) = "EX"
             THEN IF IsOk(n) THEN Ok(<<Some(n[2] * NanosPerSec), Rest(Rest(parts))>>)
                  ELSE n
             ELSE IF to_uppercase(opt[2]) = "PX"
             THEN IF IsOk(n) THEN Ok(<<Some(n[2] * NanosPerMilli), Rest(Rest(parts))>>)
                  ELSE n
             ELSE Err("currently SET only supports the expiration option")
        ELSE IF opt[2] = "EndOfStream" THEN Ok(<<None, parts>>)
        ELSE opt

\* Set::parse_frames: key and value are both read with next_string
Set_parse_frames(parts) ==
    LET key == next_string(parts)
        value == next_string(Rest(parts))
        expire == Set_parse_expire(Rest(Rest(parts)))
    IN  IF ~IsOk(key) THEN key
        ELSE IF ~IsOk(value) THEN value
        ELSE IF ~IsOk(expire) THEN expire
        ELSE Ok(<< <<"Set", key[2], value[2], expire[2][1]>>, expire[2][2] >>)

\* Ping::parse_frames
Ping_parse_frames(parts) ==
    IF IsOk(next_bytes(parts))
    THEN Ok(<< <<"Ping", Some(next_bytes(parts)[2])>>, Rest(parts) >>)
    ELSE IF next_bytes(parts)[2] = "EndOfStream" THEN Ok(<< <<"Ping", None>>, parts >>)
    ELSE next_bytes(parts)

\* the loop of Subcribe::parse_frames and Unsubscribe::parse_frames: every
\* part left is read with next_string
RECURSIVE next_strings(_)
next_strings(parts) ==
    IF parts = <<>> THEN Ok(<<>>)
    ELSE IF ~IsOk(next_string(parts)) THEN next_string(parts)
    ELSE IF ~IsOk(next_strings(Tail(parts))) THEN next_strings(Tail(parts))
    ELSE Ok(<<next_string(parts)[2]>> \o next_strings(Tail(parts))[2])

\* Subcribe::parse_frames: the first channel is required
Subcribe_parse_frames(parts) ==
    IF ~IsOk(next_string(parts)) THEN next_string(parts)
    ELSE IF ~IsOk(next_strings(parts)) THEN next_strings(parts)
    ELSE Ok(<< <<"Subcribe", next_strings(parts)[2]>>, <<>> >>)

\* Unsubscribe::parse_frames
Unsubscribe_parse_frames(parts) ==
    IF ~IsOk(next_strings(parts)) THEN next_strings(parts)
    ELSE Ok(<< <<"Unsubscribe", next_strings(parts)[2]>>, <<>> >>)

\* Parse::finish after the command's parse_frames
Finish(r) ==
    IF ~IsOk(r) THEN r
    ELSE IF r[2][2] # <<>>
         THEN Err("protocol error; expected end of frame, but there was more")
    ELSE Ok(r[2][1])

UnknownAsReceived(name, command_name) == <<"Unknown", name>>

\* the Unknown of Command::from_frame: it is made from command_name, the
\* lower-cased name
UnknownOf(name, command_name) == <<"Unknown", command_name>>

\* Command::from_frame
from_frame(frame) ==
    IF frame[1] # "Array" THEN Err("protocol error; expected array")
    ELSE IF ~IsOk(next_string(frame[2])) THEN next_string(frame[2])
    ELSE LET name == next_string(frame[2])[2]
             command_name == to_lowercase(name)
             parts == Tail(frame[2])
         IN  IF command_name = "get" THEN Finish(Get_parse_frames(parts))
             ELSE IF command_name = "publish" THEN Finish(Publish_parse_frames(parts))
             ELSE IF command_name = "set" THEN Finish(Set_parse_frames(parts))
             ELSE IF command_name = "subscribe" THEN Finish(Subcribe_parse_frames(parts))
             ELSE IF command_name = "unsubscribe"
                  THEN Finish(Unsubscribe_parse_frames(parts))
             ELSE IF command_name = "ping" THEN Finish(Ping_parse_frames(parts))
             ELSE Ok(UnknownOf(name, command_name))

\* Command::get_name
get_name(cmd) ==
    IF cmd[1] = "Get" THEN "get"
    ELSE IF cmd[1] = "Publish" THEN "publish"
    ELSE IF cmd[1] = "Set" THEN "set"
    ELSE IF cmd[1] = "Subcribe" THEN "subscribe"
    ELSE IF cmd[1] = "Unsubscribe" THEN "unsubscribe"
    ELSE IF cmd[1] = "Ping" THEN "ping"
    ELSE cmd[2]

UnknownReplyOk(command_name) == Simple("OK")

\* the frame Unknown::apply writes
UnknownReply(command_name) ==
    Error("ERR unknown command '" \o command_name \o "'")

\* a PING that answers PONG whatever its argument
PingReplyPong(msg) == Simple("PONG")

\* the frame Ping::apply writes
PingReply(msg) == IF msg = None THEN Simple("PONG") ELSE Bulk(msg[1])

\* Frame::push_bulk for each string of a list
RECURSIVE Bulks(_)
Bulks(list) == IF list = <<>> THEN <<>> ELSE <<Bulk(Head(list))>> \o Bulks(Tail(list))

\* Duration::as_millis
as_millis(duration) == duration \div NanosPerMilli

\* into_frame of Get, Set, Publish, Ping, Subcribe and Unsubscribe
into_frame(cmd) ==
    IF cmd[1] = "Get" THEN Array(<<Bulk("get"), Bulk(cmd[2])>>)
    ELSE IF cmd[1] = "Set"
         THEN Array(<<Bulk("set"), Bulk(cmd[2]), Bulk(cmd[3])>> \o
                    (IF cmd[4] = None THEN <<>>
                     ELSE <<Bulk("px"), Integer(as_millis(cmd[4][1]))>>))
    ELSE IF cmd[1] = "Publish"
         THEN Array(<<Bulk("publish"), Bulk(cmd[2]), Bulk(cmd[3])>>)
    ELSE IF cmd[1] = "Ping"
         THEN Array(<<Bulk("ping")>> \o (IF cmd[2] = None THEN <<>> ELSE <<Bulk(cmd[2][1])>>))
    ELSE IF cmd[1] = "Subcribe" THEN Array(<<Bulk("subscribe")>> \o Bulks(cmd[2]))
    ELSE Array(<<Bulk("unsubscribe")>> \o Bulks(cmd[2]))

\* ------------------------------------------------------------ pub/sub

\* Vec::swap_remove: the last element takes the place of the removed one
swap_remove(vec, i) ==
    [j \in 1..(Len(vec) - 1) |-> IF j = i THEN vec[Len(vec)] ELSE vec[j]]

\* StreamMap::keys, in entry order
keys(map) == [i \in 1..Len(map) |-> map[i].ch]

KeySet(map) == {map[i].ch : i \in 1..Len(map)}

\* the position of the entry of key k, 0 if there is none
Position(map, k) ==
    IF k \in KeySet(map) THEN CHOOSE i \in 1..Len(map) : map[i].ch = k ELSE 0

StreamMapRemovePop(map, k) ==
    IF map = <<>> THEN map ELSE swap_remove(map, Len(map))

\* StreamMap::remove
StreamMapRemove(map, k) ==
    IF Position(map, k) = 0 THEN map ELSE swap_remove(map, Position(map, k))

StreamMapInsertPush(map, k, stream) == Append(map, stream)

\* StreamMap::insert: an entry of the same key is removed first
StreamMapInsert(map, k, stream) == Append(StreamMapRemove(map, k), stream)

\* broadcast::Sender::subscribe and broadcast::channel: the new Receiver's
\* cursor is the tail of the channel
subscibeFromStart(log) == 0

subscibe(log) == Len(log)

\* the oldest message the channel retains, as a cursor
Oldest(log) == IF Len(log) > ChannelCapacity THEN Len(log) - ChannelCapacity ELSE 0

RecvFromStay(log, next) == next

\* broadcast::Receiver::recv inside the stream of subscibe_to_channel: a
\* Receiver that lagged skips to the oldest retained message
RecvFrom(log, next) == IF next < Oldest(log) THEN Oldest(log) ELSE next

Ready(log, next) == next < Len(log)

\* a Receiver that hands out the messages the channel retains newest first
ReceivedNewestFirst(log, pos) == log[Len(log) - pos + Oldest(log)]

\* broadcast::Receiver::recv: the value handed to a Receiver whose cursor,
\* past the messages it missed, is pos
Received(log, pos) == log[pos + 1]

\* broadcast::Sender::send is Ok: the channel has a Sender, with a Receiver
SendOk(ps, rc, ch) == ch \in ps /\ rc[ch] > 0

publishPerSender(ps, rc, ch) == IF ch \in ps THEN 1 ELSE 0

\* Db::publish: the Sender's receiver count, 0 without Sender or Receiver
publish(ps, rc, ch) == IF SendOk(ps, rc, ch) THEN rc[ch] ELSE 0

make_subscribe_frame(channel_name, num_subs) ==
    <<"subscribe", channel_name, num_subs>>

make_unsubscribe_frame(channel_name, num_subs) ==
    <<"unsubscribe", channel_name, num_subs>>

make_message_frame(channel_name, msg) == <<"message", channel_name, msg>>

\* the Receivers attached to channel ch: those in a connection's
\* subscriptions and those db.subscibe returned that are not yet inserted
Attached(ch) ==
    Cardinality({s \in Subs : ch \in KeySet(subs[s])})
    + Cardinality({s \in Subs : newrx[s] # None /\ newrx[s][1].ch = ch})

InitPubSub ==
    /\ pub_sub = {}
    /\ rxCount = [c \in Channels |-> 0]
    /\ chanLog = [c \in Channels |-> <<>>]
    /\ hmode = [s \in Subs |-> "normal"]
    /\ pending = [s \in Subs |-> <<>>]
    /\ newrx = [s \in Subs |-> None]
    /\ unsubq = [s \in Subs |-> <<>>]
    /\ subs = [s \in Subs |-> <<>>]
    /\ out = [s \in Subs |-> <<>>]
    /\ inbox = [s \in Subs |-> <<>>]
    /\ cmode = [s \in Subs |-> "client"]
    /\ ccall = [s \in Subs |-> None]
    /\ clist = [s \in Subs |-> <<>>]
    /\ cread = [s \in Subs |-> 0]
    /\ ops = 0
    /\ lastPub = <<>>
    /\ published = <<>>
    /\ acked = [s \in Subs |-> [c \in Channels |-> None]]
    /\ lagged = [s \in Subs |-> {}]
    /\ cmdg = [s \in Subs |-> None]

\* the handler of connection s is at the select! of Subcribe::apply
AtSelect(s) ==
    /\ hmode[s] = "pubsub"
    /\ pending[s] = <<>>
    /\ newrx[s] = None
    /\ unsubq[s] = <<>>

\* a client sends PUBLISH ch n and its handler runs Publish::apply
Publish(ch) ==
    /\ ops < MaxOps
    /\ ops' = ops + 1
    /\ chanLog' = IF SendOk(pub_sub, rxCount, ch)
                   THEN [chanLog EXCEPT ![ch] = Append(@, Len(published) + 1)]
                   ELSE chanLog
    /\ lastPub' = << <<"Integer", publish(pub_sub, rxCount, ch)>>, Attached(ch) >>
    /\ published' = Append(published, ch)
    /\ UNCHANGED <<pub_sub, rxCount, hmode, pending, newrx, unsubq, subs, out,
                   inbox, cmode, ccall, clist, cread, acked, lagged, cmdg>>
    /\ UNCHANGED otherThanPubSub

Call(kind, channels, left) ==
    [kind |-> kind, channels |-> channels, left |-> left,
     res |-> IF left = 0 THEN "Ok" ELSE "reading", failed |-> FALSE]

\* no call of client s is in progress: the methods of Subscriber borrow it, so
\* that it can be called again after a call that returned Err
Callable(s) == IF ccall[s] = None THEN TRUE ELSE ccall[s][1].res # "reading"

\* some call of client s has returned Err
SomeFailed(s) ==
    IF ccall[s] = None THEN FALSE
    ELSE ccall[s][1].failed \/ ccall[s][1].res = "Err"

\* Client::subscribe and Subscriber::subscibe, up to the frame written
Client_subscribe(s, channels) ==
    /\ cmode[s] \in {"client", "subscriber"}
    /\ Callable(s)
    /\ inbox' = [inbox EXCEPT ![s] = Append(@, into_frame(<<"Subcribe", channels>>))]
    /\ ccall' = [ccall EXCEPT ![s] =
          Some([Call("subscribe", channels, Len(channels)) EXCEPT
                  !.failed = SomeFailed(s)])]
    /\ UNCHANGED <<pub_sub, rxCount, chanLog, hmode, pending, newrx, unsubq, subs,
                   out, cmode, clist, cread, lastPub, published, acked, lagged,
                   cmdg>>
    /\ UNCHANGED otherThanPubSub

\* a client calls subscribe, one of the MaxOps calls
ClientSubscribe(s, channels) ==
    /\ ops < MaxOps
    /\ ops' = ops + 1
    /\ Client_subscribe(s, channels)

\* the one call of the clients is a subscribe, and the MaxOps calls are left
\* to the publishers
FirstSubscribe(s, channels) ==
    /\ \A t \in Subs : ccall[t] = None
    /\ UNCHANGED ops
    /\ Client_subscribe(s, channels)

\* Subscriber::unsubscribe, up to the frame written and num computed
ClientUnsubscribe(s, channels) ==
    /\ ops < MaxOps
    /\ cmode[s] = "subscriber"
    /\ Callable(s)
    /\ ops' = ops + 1
    /\ inbox' = [inbox EXCEPT ![s] = Append(@, into_frame(<<"Unsubscribe", channels>>))]
    /\ ccall' = [ccall EXCEPT ![s] =
          Some([Call("unsubscribe", channels,
                     IF channels = <<>> THEN Len(clist[s]) ELSE Len(channels))
                  EXCEPT !.failed = SomeFailed(s)])]
    /\ UNCHANGED <<pub_sub, rxCount, chanLog, hmode, pending, newrx, unsubq, subs,
                   out, cmode, clist, cread, lastPub, published, acked, lagged,
                   cmdg>>
    /\ UNCHANGED otherThanPubSub

\* Vec::retain(|c| channel != c)
Retain(list, channel) == SelectSeq(list, LAMBDA c : c # channel)

\* Client::subscribe_cmd: the response read for the i-th channel is accepted
SubscribeAccepts(frame, call) ==
    /\ frame[1] = "subscribe"
    /\ frame[2] = call.channels[Len(call.channels) - call.left + 1]

\* Subscriber::unsubscribe: the response read is accepted
UnsubscribeAccepts(frame, list) ==
    /\ frame[1] = "unsubscribe"
    /\ Len(list) # 0
    /\ Len(Retain(list, frame[2])) = Len(list) - 1

\* Connection::read_frame on the client's side: the next frame the handler
\* wrote, None once the handler has returned and every frame was read
ReadResponse(s) ==
    IF cread[s] < Len(out[s]) THEN Some(out[s][cread[s] + 1]) ELSE None

\* one turn of the response loop of Client::subscribe_cmd or of
\* Subscriber::unsubscribe, and the return of the call after the last one;
\* read_response turns None into Err. Client::subscribe takes the Client by
\* value: when it returns Err the Client is dropped, its connection with it
ClientRead(s) ==
    /\ ccall[s] # None
    /\ ccall[s][1].res = "reading"
    /\ IF cread[s] < Len(out[s]) THEN TRUE ELSE hmode[s] = "closed"
    /\ LET call == ccall[s][1]
           response == ReadResponse(s)
           last == call.left = 1
           accepted ==
               IF response = None THEN FALSE
               ELSE IF call.kind = "subscribe"
               THEN SubscribeAccepts(response[1], call)
               ELSE UnsubscribeAccepts(response[1], clist[s])
       IN  /\ cread' = [cread EXCEPT ![s] = IF response = None THEN @ ELSE @ + 1]
           /\ ccall' = [ccall EXCEPT ![s] = Some([call EXCEPT
                  !.left = IF accepted THEN @ - 1 ELSE @,
                  !.res = IF ~accepted THEN "Err"
                          ELSE IF last THEN "Ok" ELSE "reading"])]
           /\ clist' = [clist EXCEPT ![s] =
                  IF call.kind = "subscribe"
                  THEN IF accepted /\ last
                       THEN IF cmode[s] = "client" THEN call.channels
                            ELSE @ \o call.channels
                       ELSE @
                  ELSE IF response = None THEN @
                  ELSE IF response[1][1] = "unsubscribe" /\ Len(@) # 0
                  THEN Retain(@, response[1][2]) ELSE @]
           /\ cmode' = [cmode EXCEPT ![s] =
                  IF call.kind = "subscribe" /\ @ = "client"
                  THEN IF ~accepted THEN "dropped"
                       ELSE IF last THEN "subscriber" ELSE @
                  ELSE @]
    /\ UNCHANGED <<pub_sub, rxCount, chanLog, hmode, pending, newrx, unsubq, subs,
                   out, inbox, ops, lastPub, published, acked, lagged, cmdg>>
    /\ UNCHANGED otherThanPubSub

\* Subscriber::next_message: Err on a frame that is not a message, Ok(None)
\* when the server has closed the connection
ClientNextMessage(s) ==
    /\ cmode[s] = "subscriber"
    /\ Callable(s)
    /\ IF cread[s] < Len(out[s]) THEN TRUE ELSE hmode[s] = "closed"
    /\ LET response == ReadResponse(s)
       IN  /\ cread' = [cread EXCEPT ![s] = IF response = None THEN @ ELSE @ + 1]
           /\ ccall' = [ccall EXCEPT ![s] =
                  Some([Call("next_message", <<>>, 0) EXCEPT
                          !.res = IF response = None THEN "Ok"
                                  ELSE IF response[1][1] = "message" THEN "Ok"
                                  ELSE "Err",
                          !.failed = SomeFailed(s)])]
    /\ UNCHANGED <<pub_sub, rxCount, chanLog, hmode, pending, newrx, unsubq, subs,
                   out, inbox, cmode, clist, ops, lastPub, published, acked,
                   lagged, cmdg>>
    /\ UNCHANGED otherThanPubSub

\* the Subscriber is dropped, and its connection with it
ClientDrop(s) ==
    /\ ops < MaxOps
    /\ cmode[s] = "subscriber"
    /\ ccall[s][1].res # "reading"
    /\ ops' = ops + 1
    /\ cmode' = [cmode EXCEPT ![s] = "dropped"]
    /\ UNCHANGED <<pub_sub, rxCount, chanLog, hmode, pending, newrx, unsubq, subs,
                   out, inbox, ccall, clist, cread, lastPub, published, acked,
                   lagged, cmdg>>
    /\ UNCHANGED otherThanPubSub

\* the handler of s returns on reading this frame: Command::from_frame
\* fails, or Command::apply meets an Unsubscribe outside Subcribe::apply
Fails(s, frame) ==
    IF ~IsOk(from_frame(frame)) THEN TRUE
    ELSE hmode[s] = "normal" /\ from_frame(frame)[2][1] = "Unsubscribe"

\* the reply the handler of s writes on reading the command, None if it
\* writes none before going on: in Handler::run the reply of Get::apply,
\* Ping::apply or Unknown::apply, in handle_command that of Unknown::apply
\* for every command but Subcribe and Unsubscribe
Reply(s, cmd) ==
    IF cmd[1] \in {"Subcribe", "Unsubscribe"} THEN None
    ELSE IF hmode[s] = "pubsub" THEN Some(UnknownReply(get_name(cmd)))
    ELSE IF cmd[1] = "Get" THEN Some(GetReply(entries, cmd[2]))
    ELSE IF cmd[1] = "Ping" THEN Some(PingReply(cmd[2]))
    ELSE Some(UnknownReply(get_name(cmd)))

\* the handler reads a command frame and runs Command::from_frame: in
\* Handler::run a Subcribe starts Subcribe::apply and a Get, Ping or Unknown
\* is applied (Set::apply and Publish::apply are SetLocked and Publish); at
\* the select! the command goes to handle_command, where UNSUBSCRIBE
\* without channels names every key of subscriptions. When the handler
\* leaves its loop on an error, it forwards no more message: subscriptions
\* is dropped entry by entry (DropStream), the connection after it.
ReadFrame(s) ==
    /\ inbox[s] # <<>>
    /\ IF hmode[s] = "normal" THEN TRUE ELSE AtSelect(s)
    /\ hmode[s] = "normal" /\ IsOk(from_frame(Head(inbox[s])))
          => from_frame(Head(inbox[s]))[2][1] \notin {"Set", "Publish"}
    /\ inbox' = [inbox EXCEPT ![s] = Tail(@)]
    /\ LET frame == Head(inbox[s])
           cmd == from_frame(frame)[2]
       IN  /\ cmdg' = [cmdg EXCEPT ![s] =
                  Some([kind |-> IF IsOk(from_frame(frame)) THEN get_name(cmd)
                                 ELSE "Err",
                        channels |-> IF Fails(s, frame) THEN <<>>
                                     ELSE IF cmd[1] \in {"Subcribe", "Unsubscribe"}
                                     THEN cmd[2] ELSE <<>>,
                        held |-> KeySet(subs[s]), pos |-> Len(out[s]),
                        mode |-> hmode[s], frame |-> frame])]
           /\ IF Fails(s, frame)
              THEN /\ hmode' = [hmode EXCEPT ![s] =
                          IF subs[s] = <<>> THEN "closed" ELSE "closing"]
                   /\ acked' = [acked EXCEPT ![s] = [c \in Channels |-> None]]
                   /\ UNCHANGED <<rxCount, subs, pending, unsubq, out>>
              ELSE /\ hmode' = [hmode EXCEPT ![s] =
                          IF cmd[1] = "Subcribe" THEN "pubsub" ELSE @]
                   /\ pending' = [pending EXCEPT ![s] =
                          IF cmd[1] = "Subcribe" THEN @ \o cmd[2] ELSE @]
                   /\ unsubq' = [unsubq EXCEPT ![s] =
                          IF cmd[1] = "Unsubscribe"
                          THEN IF cmd[2] = <<>> THEN keys(subs[s]) ELSE cmd[2]
                          ELSE @]
                   /\ out' = [out EXCEPT ![s] =
                          IF Reply(s, cmd) = None THEN @
                          ELSE Append(@, Reply(s, cmd)[1])]
                   /\ UNCHANGED <<rxCount, subs, acked>>
    /\ UNCHANGED <<pub_sub, chanLog, newrx, cmode, ccall, clist, cread, ops,
                   lastPub, published, lagged>>
    /\ UNCHANGED otherThanPubSub

\* subscibe_to_channel, the call of Db::subscibe under the mutex
SubscribeLocked(s) ==
    /\ hmode[s] = "pubsub"
    /\ pending[s] # <<>>
    /\ newrx[s] = None
    /\ LET ch == Head(pending[s])
       IN  /\ pub_sub' = pub_sub \cup {ch}
           /\ rxCount' = [rxCount EXCEPT ![ch] = @ + 1]
           /\ newrx' = [newrx EXCEPT ![s] =
                  Some([ch |-> ch, next |-> subscibe(chanLog[ch]),
                        since |-> Len(published)])]
    /\ UNCHANGED <<chanLog, hmode, pending, unsubq, subs, out, inbox, cmode,
                   ccall, clist, cread, ops, lastPub, published, acked, lagged,
                   cmdg>>
    /\ UNCHANGED otherThanPubSub

\* an insert that keeps the stream it replaces alive
ReplacedKept(map, newmap) == 0

\* subscriptions.insert(..): the number of streams the insert replaced, whose
\* Receivers are dropped with the value it returns
Replaced(map, newmap) == Len(map) + 1 - Len(newmap)

\* subscibe_to_channel, from subscriptions.insert to the acknowledgement: the
\* stream insert replaces is dropped, and its Receiver with it
SubscribeInsert(s) ==
    /\ newrx[s] # None
    /\ LET rx == newrx[s][1]
           map == StreamMapInsert(subs[s], rx.ch, rx)
       IN  /\ subs' = [subs EXCEPT ![s] = map]
           /\ rxCount' = [rxCount EXCEPT ![rx.ch] = @ - Replaced(subs[s], map)]
           /\ out' = [out EXCEPT ![s] = Append(@, make_subscribe_frame(rx.ch, Len(map)))]
           /\ acked' = [acked EXCEPT ![s][rx.ch] =
                  IF @ = None THEN Some(Len(published)) ELSE @]
    /\ pending' = [pending EXCEPT ![s] = Tail(@)]
    /\ newrx' = [newrx EXCEPT ![s] = None]
    /\ UNCHANGED <<pub_sub, chanLog, hmode, unsubq, inbox, cmode, ccall, clist,
                   cread, ops, lastPub, published, lagged, cmdg>>
    /\ UNCHANGED otherThanPubSub

\* handle_command, one turn of the loop over unsubscribe.channels
UnsubscribeChannel(s) ==
    /\ unsubq[s] # <<>>
    /\ LET ch == Head(unsubq[s])
           map == StreamMapRemove(subs[s], ch)
       IN  /\ subs' = [subs EXCEPT ![s] = map]
           /\ rxCount' = [rxCount EXCEPT ![ch] = @ - (Len(subs[s]) - Len(map))]
           /\ out' = [out EXCEPT ![s] = Append(@, make_unsubscribe_frame(ch, Len(map)))]
           /\ acked' = [acked EXCEPT ![s][ch] = None]
    /\ unsubq' = [unsubq EXCEPT ![s] = Tail(@)]
    /\ UNCHANGED <<pub_sub, chanLog, hmode, pending, newrx, inbox, cmode, ccall,
                   clist, cread, ops, lastPub, published, lagged, cmdg>>
    /\ UNCHANGED otherThanPubSub

\* the select! of Subcribe::apply takes subscriptions.next(): the i-th stream
\* yields a message and the handler writes its frame
Forward(s, i) ==
    /\ AtSelect(s)
    /\ i \in 1..Len(subs[s])
    /\ Ready(chanLog[subs[s][i].ch], subs[s][i].next)
    /\ LET ch == subs[s][i].ch
           pos == RecvFrom(chanLog[ch], subs[s][i].next)
       IN  /\ out' = [out EXCEPT ![s] =
                  Append(@, make_message_frame(ch, Received(chanLog[ch], pos)))]
           /\ subs' = [subs EXCEPT ![s][i].next = pos + 1]
           /\ lagged' = [lagged EXCEPT ![s] =
                  IF pos # subs[s][i].next THEN @ \cup {ch} ELSE @]
    /\ UNCHANGED <<pub_sub, rxCount, chanLog, hmode, pending, newrx, unsubq,
                   inbox, cmode, ccall, clist, cread, ops, lastPub, published,
                   acked, cmdg>>
    /\ UNCHANGED otherThanPubSub

\* read_frame returns None on the dropped connection: the handler leaves
\* its loop with Ok, and subscriptions is dropped entry by entry (DropStream)
ReadEof(s) ==
    /\ cmode[s] = "dropped"
    /\ inbox[s] = <<>>
    /\ IF hmode[s] = "normal" THEN TRUE ELSE AtSelect(s)
    /\ hmode' = [hmode EXCEPT ![s] = IF subs[s] = <<>> THEN "closed" ELSE "closing"]
    /\ acked' = [acked EXCEPT ![s] = [c \in Channels |-> None]]
    /\ UNCHANGED <<pub_sub, rxCount, chanLog, pending, newrx, unsubq, subs, out,
                   inbox, cmode, ccall, clist, cread, ops, lastPub, published,
                   lagged, cmdg>>
    /\ UNCHANGED otherThanPubSub

\* Subcribe::apply has returned and its StreamMap is dropped: the Vec drops
\* its entries from the first on, each stream with its Receiver, so that a
\* PUBLISH of another connection runs between two drops; the connection is
\* dropped with the Handler, after the last
DropStream(s) ==
    /\ hmode[s] = "closing"
    /\ subs[s] # <<>>
    /\ rxCount' = [rxCount EXCEPT ![Head(subs[s]).ch] = @ - 1]
    /\ subs' = [subs EXCEPT ![s] = Tail(@)]
    /\ hmode' = [hmode EXCEPT ![s] = IF Tail(subs[s]) = <<>> THEN "closed" ELSE @]
    /\ UNCHANGED <<pub_sub, chanLog, pending, newrx, unsubq, out, inbox, cmode,
                   ccall, clist, cread, ops, lastPub, published, acked, lagged,
                   cmdg>>
    /\ UNCHANGED otherThanPubSub

\* the request frames a client writes on its own, without the library
RequestFrames ==
    {Array(<<Bulk("PING")>>),
     Array(<<Bulk("get"), Bulk("foo")>>),
     Array(<<Bulk("FOO"), Bulk("0xff"), Integer(1)>>),
     Array(<<Bulk("quit")>>),
     Array(<<Bulk("set"), Bulk("foo"), Bulk("v1"), Bulk("nx")>>),
     Array(<<Bulk("subscribe"), Bulk("hello")>>),
     Array(<<Bulk("unsubscribe"), Bulk("hello")>>)}

\* a client writes a request frame to its connection
ClientWrite(s, frame) ==
    /\ ops < MaxOps
    /\ cmode[s] = "client"
    /\ ops' = ops + 1
    /\ inbox' = [inbox EXCEPT ![s] = Append(@, frame)]
    /\ UNCHANGED <<pub_sub, rxCount, chanLog, hmode, pending, newrx, unsubq, subs,
                   out, cmode, ccall, clist, cread, lastPub, published, acked,
                   lagged, cmdg>>
    /\ UNCHANGED otherThanPubSub

\* connections whose clients write request frames, and their handlers
HandlerNext ==
    \/ \E s \in Subs, frame \in RequestFrames : ClientWrite(s, frame)
    \/ \E s \in Subs : ReadFrame(s)
    \/ \E s \in Subs : SubscribeLocked(s)
    \/ \E s \in Subs : SubscribeInsert(s)
    \/ \E s \in Subs : UnsubscribeChannel(s)
    \/ \E s \in Subs : DropStream(s)

\* the publishers, the subscriber clients and their connections' handlers
PubSubNext ==
    \/ \E ch \in Channels : Publish(ch)
    \/ \E s \in Subs, l \in SubscribeLists : ClientSubscribe(s, l)
    \/ \E s \in Subs, l \in UnsubscribeLists : ClientUnsubscribe(s, l)
    \/ \E s \in Subs : ClientRead(s)
    \/ \E s \in Subs : ClientNextMessage(s)
    \/ \E s \in Subs : ClientDrop(s)
    \/ \E s \in Subs : ReadFrame(s)
    \/ \E s \in Subs : SubscribeLocked(s)
    \/ \E s \in Subs : SubscribeInsert(s)
    \/ \E s \in Subs : UnsubscribeChannel(s)
    \/ \E s \in Subs, i \in 1..Cardinality(Channels) : Forward(s, i)
    \/ \E s \in Subs : ReadEof(s)
    \/ \E s \in Subs : DropStream(s)

\* subscribers that stay and fall behind the publishers, who overflow the
\* channels
LagNext ==
    \/ \E ch \in Channels : Publish(ch)
    \/ \E s \in Subs, l \in SubscribeLists : FirstSubscribe(s, l)
    \/ \E s \in Subs : ClientRead(s)
    \/ \E s \in Subs : ReadFrame(s)
    \/ \E s \in Subs : SubscribeLocked(s)
    \/ \E s \in Subs : SubscribeInsert(s)
    \/ \E s \in Subs, i \in 1..Cardinality(Channels) : Forward(s, i)

\* ---------------------------------------------------------------------
\* the server

MaxBackoff == 64

CanAcquireAlways(n) == TRUE

\* acquire_owned completes when a permit is left
CanAcquire(n) == n > 0

\* accept: backoff *= 2
NextBackoff(b) == b * 2

IsFatalFrom32(b) == b > 32

\* the test of accept on a failure of the listener
IsFatal(b) == b > MaxBackoff

NeverClosed(alive) == FALSE

\* notify.recv() of a Shutdown completes once the broadcast Sender is dropped
RecvCompletes(alive) == ~alive

ListenerSenderDropped(n) == TRUE

\* shutdown_complete_rx.recv() returns None once every Sender clone is dropped
RecvReturnsNone(n) == n = 0

\* the states of a task whose Handler::run has not returned
Running == {"select", "apply", "pubsub", "handle"}

\* the tasks holding the permit they were spawned with: those whose
\* Handler::run has not returned, is dropping its locals, or has returned
Holding == Running \cup {"dropping", "returned"}

InitServer ==
    /\ rpc = "select"
    /\ shutdown_future = FALSE
    /\ notify_shutdown = TRUE
    /\ shutdown_complete_tx = 1
    /\ available_permits = MaxConnections
    /\ lpc = "acquire"
    /\ backoff = 1
    /\ waits = <<>>
    /\ hst = [c \in Conns |-> "none"]
    /\ is_shutdown = [c \in Conns |-> FALSE]
    /\ subscribed = [c \in Conns |-> FALSE]

\* Listener::run: a permit is acquired before accept is called
ListenerAcquire ==
    /\ rpc = "select"
    /\ lpc = "acquire"
    /\ CanAcquire(available_permits)
    /\ available_permits' = available_permits - 1
    /\ lpc' = "accept"
    /\ backoff' = 1
    /\ waits' = <<>>
    /\ UNCHANGED <<rpc, shutdown_future, notify_shutdown, shutdown_complete_tx,
                   hst, is_shutdown, subscribed>>
    /\ UNCHANGED otherThanServer

\* accept: the listener yields a socket; Listener::run builds the Handler,
\* moves the permit into the task it spawns and loops
AcceptOk(c) ==
    /\ rpc = "select"
    /\ lpc = "accept"
    /\ hst[c] = "none"
    /\ \A d \in Conns : d < c => hst[d] # "none"
    /\ hst' = [hst EXCEPT ![c] = "select"]
    /\ shutdown_complete_tx' = shutdown_complete_tx + 1
    /\ lpc' = "acquire"
    /\ UNCHANGED <<rpc, shutdown_future, notify_shutdown, available_permits,
                   backoff, waits, is_shutdown, subscribed>>
    /\ UNCHANGED otherThanServer

\* accept: the listener fails; past the last backoff the error is returned
\* through Listener::run, which drops its permit, otherwise accept sleeps
AcceptErr ==
    /\ rpc = "select"
    /\ lpc = "accept"
    /\ IF IsFatal(backoff)
       THEN /\ lpc' = "failed"
            /\ available_permits' = available_permits + 1
            /\ UNCHANGED waits
       ELSE /\ lpc' = "sleep"
            /\ waits' = Append(waits, backoff)
            /\ UNCHANGED available_permits
    /\ UNCHANGED <<rpc, shutdown_future, notify_shutdown, shutdown_complete_tx,
                   backoff, hst, is_shutdown, subscribed>>
    /\ UNCHANGED otherThanServer

\* accept: the sleep is over, the backoff doubles and accept is retried
SleepDone ==
    /\ rpc = "select"
    /\ lpc = "sleep"
    /\ backoff' = NextBackoff(backoff)
    /\ lpc' = "accept"
    /\ UNCHANGED <<rpc, shutdown_future, notify_shutdown, shutdown_complete_tx,
                   available_permits, waits, hst, is_shutdown, subscribed>>
    /\ UNCHANGED otherThanServer

\* the shutdown future given to server::run completes
ShutdownFuture ==
    /\ ~shutdown_future
    /\ shutdown_future' = TRUE
    /\ UNCHANGED <<rpc, notify_shutdown, shutdown_complete_tx, available_permits,
                   lpc, backoff, waits, hst, is_shutdown, subscribed>>
    /\ UNCHANGED otherThanServer

\* server::run: the select! takes the branch of Listener::run, which has
\* failed; the two Senders of the Listener are dropped
RunListenerFailed ==
    /\ rpc = "select"
    /\ lpc = "failed"
    /\ rpc' = "drain"
    /\ notify_shutdown' = FALSE
    /\ shutdown_complete_tx' = shutdown_complete_tx - 1
    /\ UNCHANGED <<shutdown_future, available_permits, lpc, backoff, waits, hst,
                   is_shutdown, subscribed>>
    /\ UNCHANGED otherThanServer

\* server::run: the select! takes the branch of the shutdown future; the
\* future of Listener::run is dropped with the permit it may hold, then the
\* two Senders of the Listener are dropped
RunShutdown ==
    /\ rpc = "select"
    /\ shutdown_future
    /\ rpc' = "drain"
    /\ lpc' = IF lpc = "failed" THEN lpc ELSE "cancelled"
    /\ available_permits' =
           IF lpc \in {"accept", "sleep"} THEN available_permits + 1
           ELSE available_permits
    /\ notify_shutdown' = FALSE
    /\ shutdown_complete_tx' = shutdown_complete_tx - 1
    /\ UNCHANGED <<shutdown_future, backoff, waits, hst, is_shutdown, subscribed>>
    /\ UNCHANGED otherThanServer

\* server::run: every Sender clone is gone, recv returns and run returns
RunReturn ==
    /\ rpc = "drain"
    /\ RecvReturnsNone(shutdown_complete_tx)
    /\ rpc' = "returned"
    /\ UNCHANGED <<shutdown_future, notify_shutdown, shutdown_complete_tx,
                   available_permits, lpc, backoff, waits, hst, is_shutdown,
                   subscribed>>
    /\ UNCHANGED otherThanServer

\* Handler::run or Subcribe::apply: the select! yields a frame of the client
HandlerFrame(c) ==
    /\ hst[c] \in {"select", "pubsub"}
    /\ hst' = [hst EXCEPT ![c] = IF hst[c] = "select" THEN "apply" ELSE "handle"]
    /\ UNCHANGED <<rpc, shutdown_future, notify_shutdown, shutdown_complete_tx,
                   available_permits, lpc, backoff, waits, is_shutdown, subscribed>>
    /\ UNCHANGED otherThanServer

\* the command of the frame has been applied and its reply written: the
\* handler is back at its select!, a SUBSCRIBE having entered Subcribe::apply
HandlerApplied(c, subscribe) ==
    /\ hst[c] \in {"apply", "handle"}
    /\ hst[c] = "handle" => ~subscribe
    /\ hst' = [hst EXCEPT ![c] = IF hst[c] = "handle" \/ subscribe
                                  THEN "pubsub" ELSE "select"]
    /\ subscribed' = [subscribed EXCEPT ![c] = @ \/ subscribe]
    /\ UNCHANGED <<rpc, shutdown_future, notify_shutdown, shutdown_complete_tx,
                   available_permits, lpc, backoff, waits, is_shutdown>>
    /\ UNCHANGED otherThanServer

\* the handler returns without having seen the shutdown: the peer closed the
\* socket (at a select!), or decoding, applying or writing failed
HandlerReturns(c) ==
    /\ hst[c] \in Running
    /\ hst' = [hst EXCEPT ![c] = "returned"]
    /\ UNCHANGED <<rpc, shutdown_future, notify_shutdown, shutdown_complete_tx,
                   available_permits, lpc, backoff, waits, is_shutdown, subscribed>>
    /\ UNCHANGED otherThanServer

\* the select! of Handler::run or of Subcribe::apply takes the branch of
\* shutdown.recv(): the flag is set and Handler::run returns Ok
HandlerShutdown(c) ==
    /\ hst[c] \in {"select", "pubsub"}
    /\ RecvCompletes(notify_shutdown)
    /\ is_shutdown' = [is_shutdown EXCEPT ![c] = TRUE]
    /\ hst' = [hst EXCEPT ![c] = "returned"]
    /\ UNCHANGED <<rpc, shutdown_future, notify_shutdown, shutdown_complete_tx,
                   available_permits, lpc, backoff, waits, subscribed>>
    /\ UNCHANGED otherThanServer

\* the task drops its permit after Handler::run has returned
DropPermit(c) ==
    /\ hst[c] = "returned"
    /\ hst' = [hst EXCEPT ![c] = "released"]
    /\ available_permits' = available_permits + 1
    /\ UNCHANGED <<rpc, shutdown_future, notify_shutdown, shutdown_complete_tx,
                   lpc, backoff, waits, is_shutdown, subscribed>>
    /\ UNCHANGED otherThanServer

\* the task ends: the Handler is dropped with its Shutdown and its clone of
\* the Sender
DropHandler(c) ==
    /\ hst[c] = "released"
    /\ hst' = [hst EXCEPT ![c] = "dropped"]
    /\ shutdown_complete_tx' = shutdown_complete_tx - 1
    /\ is_shutdown' = [is_shutdown EXCEPT ![c] = FALSE]
    /\ subscribed' = [subscribed EXCEPT ![c] = FALSE]
    /\ UNCHANGED <<rpc, shutdown_future, notify_shutdown, available_permits,
                   lpc, backoff, waits>>
    /\ UNCHANGED otherThanServer

\* a Listener whose remaining fields are dropped where it is destructured
ServerDroppedEarly == rpc \in {"drain", "returned"}

\* server::run: the fields of the Listener that the destructuring leaves in
\* place, db_holder among them, are dropped when run returns
ServerDropped == rpc = "returned"

\* Drop for DbDropGuard, run when server::run drops what is left of the
\* Listener: Db::shutdown_purge_task, the critical section
RunDropsGuard ==
    /\ ServerDropped
    /\ ShutdownLocked

ServerNext ==
    \/ ListenerAcquire
    \/ \E c \in Conns : AcceptOk(c)
    \/ AcceptErr
    \/ SleepDone
    \/ ShutdownFuture
    \/ RunListenerFailed
    \/ RunShutdown
    \/ RunReturn
    \/ \E c \in Conns : HandlerFrame(c)
    \/ \E c \in Conns, subscribe \in BOOLEAN : HandlerApplied(c, subscribe)
    \/ \E c \in Conns : HandlerReturns(c)
    \/ \E c \in Conns : HandlerShutdown(c)
    \/ \E c \in Conns : DropPermit(c)
    \/ \E c \in Conns : DropHandler(c)

\* ---------------------------------------------------------------------
\* frames on the wire.  A byte is a string naming it; the payload of a frame
\* is a sequence of bytes.

CR == "CR"

LF == "LF"

Incomplete == Err("Incomplete")

DigitChars == <<"0", "1", "2", "3", "4", "5", "6", "7", "8", "9">>

IsDigit(b) == \E d \in 1..Len(DigitChars) : DigitChars[d] = b

DigitValue(b) == (CHOOSE d \in 1..Len(DigitChars) : DigitChars[d] = b) - 1

\* the digits of write!(buf, "{}", val)
RECURSIVE Digits(_)
Digits(val) ==
    IF val < Len(DigitChars) THEN <<DigitChars[val + 1]>>
    ELSE Digits(val \div Len(DigitChars)) \o <<DigitChars[(val % Len(DigitChars)) + 1]>>

write_decimal(val) == Digits(val) \o <<CR, LF>>

\* a panic of the task, with the message of the macro
Panic(msg) == <<"Panic", msg>>

IsPanic(r) == Len(r) = 2 /\ r[1] = "Panic"

\* Connection::write_value: the bytes of a frame literal; an Array is
\* unreachable!()
write_value(frame) ==
    CASE frame[1] = "Simple" -> <<"+">> \o frame[2] \o <<CR, LF>>
      [] frame[1] = "Error" -> <<"-">> \o frame[2] \o <<CR, LF>>
      [] frame[1] = "Integer" -> <<":">> \o write_decimal(frame[2])
      [] frame[1] = "Null" -> <<"$", "-", "1", CR, LF>>
      [] frame[1] = "Bulk" ->
            <<"$">> \o write_decimal(Len(frame[2])) \o frame[2] \o <<CR, LF>>
      [] frame[1] = "Array" -> Panic("internal error: entered unreachable code")

\* the loop of write_frame over the entries of an array, up to the first
\* entry whose write_value panics
RECURSIVE write_values(_)
write_values(vec) ==
    IF vec = <<>> THEN <<>>
    ELSE LET entry == write_value(Head(vec))
         IN IF IsPanic(entry) THEN entry
            ELSE LET rest == write_values(Tail(vec))
                 IN IF IsPanic(rest) THEN rest ELSE entry \o rest

\* Connection::write_frame: the bytes flushed to the socket, none when
\* write_value panics
write_frame(frame) ==
    IF frame[1] = "Array"
    THEN LET elems == write_values(frame[2])
         IN IF IsPanic(elems) THEN elems
            ELSE <<"*">> \o write_decimal(Len(frame[2])) \o elems
    ELSE write_value(frame)

\* the bytes of a sequence of frames written one after the other
RECURSIVE write_frames(_)
write_frames(frames) ==
    IF frames = <<>> THEN <<>>
    ELSE LET first == write_frame(Head(frames))
         IN IF IsPanic(first) THEN first
            ELSE LET rest == write_frames(Tail(frames))
                 IN IF IsPanic(rest) THEN rest ELSE first \o rest

\* String::from_utf8 of a line
from_utf8(line) ==
    IF \E i \in 1..Len(line) : line[i] \in NotUtf8
    THEN Err("protocol error; invalid frame format") ELSE Ok(line)

peek_u8(src, pos) == IF Len(src) - pos <= 0 THEN Incomplete ELSE Ok(src[pos + 1])

get_u8(src, pos) ==
    IF Len(src) - pos <= 0 THEN Incomplete ELSE Ok(<<src[pos + 1], pos + 1>>)

skipUnchecked(src, pos, n) == Ok(pos + n)

skip(src, pos, n) == IF Len(src) - pos < n THEN Incomplete ELSE Ok(pos + n)

\* the line from the cursor to the first CR LF, and the cursor past it
get_line(src, pos) ==
    LET ends == {i \in pos..(Len(src) - 2) : src[i + 1] = CR /\ src[i + 2] = LF}
    IN IF ends = {} THEN Incomplete
       ELSE LET i == CHOOSE e \in ends : \A f \in ends : e <= f
            IN Ok(<<SubSeq(src, pos + 1, i), i + 2>>)

\* atoi::<u64> of a line: the value of its leading digits, None without any
RECURSIVE atoi_digits(_, _)
atoi_digits(line, acc) ==
    IF line = <<>> \/ ~IsDigit(Head(line)) THEN acc
    ELSE atoi_digits(Tail(line), acc * Len(DigitChars) + DigitValue(Head(line)))

atoi_line(line) ==
    IF line = <<>> \/ ~IsDigit(Head(line)) THEN None ELSE Some(atoi_digits(line, 0))

get_decimal(src, pos) ==
    LET line == get_line(src, pos)
    IN IF ~IsOk(line) THEN line
       ELSE IF atoi_line(line[2][1]) = None
            THEN Err("protocol error: invalid frame format")
            ELSE Ok(<<atoi_line(line[2][1])[1], line[2][2]>>)

RECURSIVE check(_, _)
RECURSIVE check_each(_, _, _)
check_each(src, pos, len) ==
    IF len = 0 THEN Ok(pos)
    ELSE LET c == check(src, pos)
         IN IF IsOk(c) THEN check_each(src, c[2], len - 1) ELSE c

\* Frame::check: the cursor past one whole frame
check(src, pos) ==
    LET b == get_u8(src, pos)
    IN IF ~IsOk(b) THEN b
       ELSE LET p == b[2][2]
            IN CASE b[2][1] \in {"+", "-"} ->
                      (LET line == get_line(src, p)
                       IN IF IsOk(line) THEN Ok(line[2][2]) ELSE line)
                 [] b[2][1] = ":" ->
                      (LET d == get_decimal(src, p)
                       IN IF IsOk(d) THEN Ok(d[2][2]) ELSE d)
                 [] b[2][1] = "$" ->
                      (LET k == peek_u8(src, p)
                       IN IF ~IsOk(k) THEN k
                          ELSE IF k[2] = "-" THEN skip(src, p, 4)
                          ELSE LET d == get_decimal(src, p)
                               IN IF IsOk(d) THEN skip(src, d[2][2], d[2][1] + 2)
                                  ELSE d)
                 [] b[2][1] = "*" ->
                      (LET d == get_decimal(src, p)
                       IN IF IsOk(d) THEN check_each(src, d[2][2], d[2][1]) ELSE d)
                 [] OTHER -> Err("protocol error: invalid frame type byte")

RECURSIVE parse(_, _)
RECURSIVE parse_each(_, _, _, _)
parse_each(src, pos, len, out_) ==
    IF len = 0 THEN Ok(<<Array(out_), pos>>)
    ELSE LET f == parse(src, pos)
         IN IF IsOk(f) THEN parse_each(src, f[2][2], len - 1, Append(out_, f[2][1]))
            ELSE f

\* Frame::parse: the frame at the cursor and the cursor past it
parse(src, pos) ==
    LET b == get_u8(src, pos)
    IN IF ~IsOk(b) THEN b
       ELSE LET p == b[2][2]
            IN CASE b[2][1] \in {"+", "-"} ->
                      (LET line == get_line(src, p)
                       IN IF ~IsOk(line) THEN line
                          ELSE IF ~IsOk(from_utf8(line[2][1])) THEN from_utf8(line[2][1])
                          ELSE Ok(<<IF b[2][1] = "+" THEN Simple(line[2][1])
                                    ELSE Error(line[2][1]), line[2][2]>>))
                 [] b[2][1] = ":" ->
                      (LET d == get_decimal(src, p)
                       IN IF IsOk(d) THEN Ok(<<Integer(d[2][1]), d[2][2]>>) ELSE d)
                 [] b[2][1] = "$" ->
                      (LET k == peek_u8(src, p)
                       IN IF ~IsOk(k) THEN k
                          ELSE IF k[2] = "-"
                          THEN LET line == get_line(src, p)
                               IN IF ~IsOk(line) THEN line
                                  ELSE IF line[2][1] # <<"-", "1">>
                                  THEN Err("protocol error; invalid frame format")
                                  ELSE Ok(<<Null, line[2][2]>>)
                          ELSE LET d == get_decimal(src, p)
                               IN IF ~IsOk(d) THEN d
                                  ELSE IF Len(src) - d[2][2] < d[2][1] + 2 THEN Incomplete
                                  ELSE Ok(<<Bulk(SubSeq(src, d[2][2] + 1, d[2][2] + d[2][1])),
                                            d[2][2] + d[2][1] + 2>>))
                 [] b[2][1] = "*" ->
                      (LET d == get_decimal(src, p)
                       IN IF IsOk(d) THEN parse_each(src, d[2][2], d[2][1], <<>>) ELSE d)
                 [] OTHER -> Panic("not implemented")

advanceAll(buf, cnt) == <<>>

\* BytesMut::advance
advance(buf, cnt) == SubSeq(buf, cnt + 1, Len(buf))

\* Connection::parse_frame: the frame, if a whole one is buffered, and the
\* buffer it leaves
parse_frame(buf) ==
    LET c == check(buf, 0)
    IN IF IsOk(c)
       THEN LET f == parse(buf, 0)
            IN IF IsOk(f) THEN Ok(<<Some(f[2][1]), advance(buf, c[2])>>) ELSE f
       ELSE IF c = Incomplete THEN Ok(<<None, buf>>)
       ELSE c

\* the frames a peer writes
FrameSamples ==
    {Simple(<<"O", "K">>),
     Error(<<"E">>),
     Integer(10),
     Null,
     Bulk(<<>>),
     Bulk(<<CR, LF, "0xff">>),
     Array(<<Bulk(<<"g">>), Integer(7)>>),
     Array(<<Array(<<Null>>), Simple(<<>>)>>)}

InitCodec ==
    /\ sent = <<>>
    /\ wire = <<>>
    /\ peer_closed = FALSE
    /\ buffer = <<>>
    /\ consumed = <<>>
    /\ received = <<>>
    /\ rfpc = "parse"

\* the peer writes a frame with write_frame; when write_value panics the
\* peer's task unwinds, nothing was flushed and its connection is dropped
PeerWrites(frame) ==
    /\ ~peer_closed
    /\ Len(sent) < MaxFrames
    /\ IF IsPanic(write_frame(frame))
       THEN /\ peer_closed' = TRUE
            /\ UNCHANGED <<sent, wire>>
       ELSE /\ sent' = Append(sent, frame)
            /\ wire' = wire \o write_frame(frame)
            /\ UNCHANGED peer_closed
    /\ UNCHANGED <<buffer, consumed, received, rfpc>>
    /\ UNCHANGED otherThanCodec

\* read_frame calls parse_frame: a whole frame is returned to the caller,
\* which calls read_frame again; without one read_frame goes on to read
ParseFrame ==
    /\ rfpc = "parse"
    /\ LET r == parse_frame(buffer)
       IN IF ~IsOk(r)
          THEN /\ rfpc' = "error"
               /\ UNCHANGED <<buffer, consumed, received>>
          ELSE IF r[2][1] = None
          THEN /\ rfpc' = "read"
               /\ buffer' = r[2][2]
               /\ UNCHANGED <<consumed, received>>
          ELSE /\ rfpc' = "parse"
               /\ buffer' = r[2][2]
               /\ consumed' = consumed \o SubSeq(buffer, 1, Len(buffer) - Len(r[2][2]))
               /\ received' = Append(received, r[2][1][1])
    /\ UNCHANGED <<sent, wire, peer_closed>>
    /\ UNCHANGED otherThanCodec

\* read_buf appends some of the bytes that have arrived to the buffer
ReadBuf(n) ==
    /\ rfpc = "read"
    /\ n \in 1..Len(wire)
    /\ buffer' = buffer \o SubSeq(wire, 1, n)
    /\ wire' = SubSeq(wire, n + 1, Len(wire))
    /\ rfpc' = "parse"
    /\ UNCHANGED <<sent, peer_closed, consumed, received>>
    /\ UNCHANGED otherThanCodec

\* the peer closes its end: the bytes it wrote before still arrive
PeerCloses ==
    /\ ~peer_closed
    /\ peer_closed' = TRUE
    /\ UNCHANGED <<sent, wire, buffer, consumed, received, rfpc>>
    /\ UNCHANGED otherThanCodec

\* read_buf returns 0: a clean end with an empty buffer, an error otherwise
ReadBufEof ==
    /\ rfpc = "read"
    /\ wire = <<>>
    /\ peer_closed
    /\ rfpc' = IF buffer = <<>> THEN "closed" ELSE "reset"
    /\ UNCHANGED <<sent, wire, peer_closed, buffer, consumed, received>>
    /\ UNCHANGED otherThanCodec

CodecNext ==
    \/ \E frame \in FrameSamples : PeerWrites(frame)
    \/ ParseFrame
    \/ \E n \in 1..Len(wire) : ReadBuf(n)
    \/ PeerCloses
    \/ ReadBufEof

\* ---------------------------------------------------------------------
\* commands through into_frame and from_frame

\* the values and messages of the commands: text, empty, not UTF-8
ByteStrings == {"v1", "", "0xff"}

\* the expirations of SET: none, whole milliseconds, a second, and durations
\* with a part below the millisecond
Expirations ==
    {None, Some(0), Some(1), Some(NanosPerMilli), Some(NanosPerMilli + 1),
     Some(NanosPerSec)}

ChannelLists ==
    {<<>>, <<"hello">>, <<"world">>, <<"hello", "world">>, <<"world", "hello">>,
     <<"hello", "hello">>}

Commands ==
    {<<"Get", k>> : k \in Keys}
    \cup {<<"Set", k, v, e>> : k \in Keys, v \in ByteStrings, e \in Expirations}
    \cup {<<"Publish", c, m>> : c \in Channels, m \in ByteStrings}
    \cup {<<"Ping", m>> : m \in {None} \cup {Some(b) : b \in ByteStrings}}
    \cup {<<"Subcribe", l>> : l \in ChannelLists}
    \cup {<<"Unsubscribe", l>> : l \in ChannelLists}

InitCommand ==
    /\ command = None
    /\ frame_of = None
    /\ decoded = None

\* a client turns a command into the frame it sends
IntoFrame(cmd) ==
    /\ command' = Some(cmd)
    /\ frame_of' = Some(into_frame(cmd))
    /\ decoded' = None
    /\ UNCHANGED otherThanCommand

\* the server decodes the frame
FromFrame ==
    /\ frame_of # None
    /\ decoded = None
    /\ decoded' = Some(from_frame(frame_of[1]))
    /\ UNCHANGED <<command, frame_of>>
    /\ UNCHANGED otherThanCommand

CommandNext ==
    \/ \E cmd \in Commands : IntoFrame(cmd)
    \/ FromFrame

\* ---------------------------------------------------------------------
\* Db::publish, step by step under the store mutex

InitLock ==
    /\ mutex = "free"
    /\ ppc = [h \in Handlers |-> "idle"]
    /\ pch = [h \in Handlers |-> None]

\* Db::publish: let state = self.shared.state.lock().unwrap()
PublishLock(h, ch) ==
    /\ ops < MaxOps
    /\ ppc[h] = "idle"
    /\ mutex = "free"
    /\ mutex' = h
    /\ ppc' = [ppc EXCEPT ![h] = "locked"]
    /\ pch' = [pch EXCEPT ![h] = Some(ch)]
    /\ ops' = ops + 1
    /\ UNCHANGED <<pub_sub, rxCount, chanLog, hmode, pending, newrx, unsubq,
                   subs, out, inbox, cmode, ccall, clist, cread, lastPub,
                   published, acked, lagged, cmdg>>
    /\ UNCHANGED otherThanLock

\* Db::publish: state.pub_sub.get(key).map(|tx| tx.send(value).unwrap_or(0)),
\* evaluated while the guard state is alive
PublishSend(h) ==
    /\ ppc[h] = "locked"
    /\ LET ch == pch[h][1]
       IN  /\ chanLog' = IF SendOk(pub_sub, rxCount, ch)
                          THEN [chanLog EXCEPT ![ch] = Append(@, Len(published) + 1)]
                          ELSE chanLog
           /\ lastPub' = << <<"Integer", publish(pub_sub, rxCount, ch)>>, Attached(ch) >>
           /\ published' = Append(published, ch)
    /\ ppc' = [ppc EXCEPT ![h] = "sent"]
    /\ UNCHANGED <<mutex, pch>>
    /\ UNCHANGED <<pub_sub, rxCount, hmode, pending, newrx, unsubq, subs, out,
                   inbox, cmode, ccall, clist, cread, ops, acked, lagged, cmdg>>
    /\ UNCHANGED otherThanLock

\* Db::publish returns: the guard state goes out of scope
PublishReturn(h) ==
    /\ ppc[h] = "sent"
    /\ mutex = h
    /\ mutex' = "free"
    /\ ppc' = [ppc EXCEPT ![h] = "idle"]
    /\ pch' = [pch EXCEPT ![h] = None]
    /\ UNCHANGED pubsubVars
    /\ UNCHANGED otherThanLock

\* Db::subscibe locks the same mutex for its whole body
DbSubscibe(s) ==
    /\ mutex = "free"
    /\ SubscribeLocked(s)

\* publishers and subscribers meeting at the store mutex
MutexNext ==
    \/ \E h \in Handlers, ch \in Channels : PublishLock(h, ch)
    \/ \E h \in Handlers : PublishSend(h)
    \/ \E h \in Handlers : PublishReturn(h)
    \/ \E s \in Subs, l \in SubscribeLists : ClientSubscribe(s, l)
    \/ \E s \in Subs : ReadFrame(s)
    \/ \E s \in Subs : DbSubscibe(s)
    \/ \E s \in Subs : SubscribeInsert(s)
    \/ \E s \in Subs, i \in 1..Cardinality(Channels) : Forward(s, i)

\* ---------------------------------------------------------------------
\* the buffered client

\* the commands of buffered_client::Command the callers issue
BufferedCommands ==
    {<<"Get", k>> : k \in {"foo"}} \cup {<<"Set", "foo", v>> : v \in Values}

InitBuffer ==
    /\ issued = <<>>
    /\ queue = <<>>
    /\ gone = {}
    /\ handles = Callers
    /\ inflight = None
    /\ requests = <<>>
    /\ responses = <<>>
    /\ remote = [k \in Keys |-> None]
    /\ delivered = {}
    /\ sent_ids = <<>>
    /\ connected = TRUE
    /\ task_done = FALSE

\* the caller awaits the oneshot of one of its calls
Waiting(c) ==
    \E id \in 1..Len(issued) :
        /\ issued[id].caller = c
        /\ id \notin gone
        /\ id \notin {d[1] : d \in delivered}

recvNewest(q) == <<q[Len(q)], SubSeq(q, 1, Len(q) - 1)>>

\* mpsc::Receiver::recv: the oldest message of the channel, and the rest
recv(q) == <<Head(q), Tail(q)>>

\* Client::get and Client::set_cmd: the result made of the response frame
FromResponse(cmd, frame) ==
    IF frame[1] = "Error" THEN Err(frame[2])
    ELSE IF cmd[1] = "Get"
    THEN IF frame[1] \in {"Simple", "Bulk"} THEN Ok(Some(frame[2]))
         ELSE IF frame = Null THEN Ok(None)
         ELSE Err("unexpected frame")
    ELSE IF frame = Simple("OK") THEN Ok(None)
         ELSE Err("unexpected frame")

\* the server applies a request to its key-space and answers it
ServerReply(kv, cmd) ==
    IF cmd[1] = "Get"
    THEN IF kv[cmd[2]] = None THEN Null ELSE Bulk(kv[cmd[2]][1])
    ELSE Simple("OK")

ServerStore(kv, cmd) ==
    IF cmd[1] = "Set" THEN [kv EXCEPT ![cmd[2]] = Some(cmd[3])] ELSE kv

\* BufferedClient::get and BufferedClient::set up to self.tx.send(..).await:
\* the message enters the channel when it has room
BufferedCall(c, cmd) ==
    /\ c \in handles
    /\ ~Waiting(c)
    /\ ~task_done
    /\ Len(issued) < MaxCalls
    /\ Len(queue) < BufferSize
    /\ issued' = Append(issued, [caller |-> c, cmd |-> cmd])
    /\ queue' = Append(queue, Len(issued) + 1)
    /\ UNCHANGED <<gone, handles, inflight, requests, responses, remote,
                   delivered, sent_ids, connected, task_done>>
    /\ UNCHANGED otherThanBuffer

\* the caller drops the future of its call: the oneshot Receiver is closed
CallerGivesUp(c) ==
    /\ \E id \in 1..Len(issued) :
          /\ issued[id].caller = c
          /\ id \notin gone
          /\ id \notin {d[1] : d \in delivered}
          /\ gone' = gone \cup {id}
    /\ UNCHANGED <<issued, queue, handles, inflight, requests, responses,
                   remote, delivered, sent_ids, connected, task_done>>
    /\ UNCHANGED otherThanBuffer

\* a handle is dropped
HandleDropped(c) ==
    /\ c \in handles
    /\ ~Waiting(c)
    /\ handles' = handles \ {c}
    /\ UNCHANGED <<issued, queue, gone, inflight, requests, responses, remote,
                   delivered, sent_ids, connected, task_done>>
    /\ UNCHANGED otherThanBuffer

\* run: rx.recv() yields a message, and Client::get or Client::set_cmd
\* writes its request frame. Once the server has closed the connection the
\* write fails with an io error or goes to a socket nobody reads, as the
\* transport decides
TaskSend(wrote) ==
    /\ ~task_done
    /\ inflight = None
    /\ queue # <<>>
    /\ connected => wrote
    /\ inflight' = IF wrote THEN Some(recv(queue)[1])
                   ELSE <<recv(queue)[1], Err("broken pipe")>>
    /\ queue' = recv(queue)[2]
    /\ sent_ids' = Append(sent_ids, recv(queue)[1])
    /\ requests' = IF connected THEN Append(requests, recv(queue)[1]) ELSE requests
    /\ UNCHANGED <<issued, gone, handles, responses, remote, delivered,
                   connected, task_done>>
    /\ UNCHANGED otherThanBuffer

\* run: Client::get or Client::set_cmd returns, with the error of write_frame
\* or with what read_response made of the response, and tx.send(response)
\* hands the result to the caller, or to nobody when the caller is gone
TaskRespond ==
    /\ inflight # None
    /\ LET id == inflight[1]
           got == IF Len(inflight) = 2 THEN <<id, id, inflight[2]>>
                  ELSE IF responses # <<>>
                  THEN <<id, Head(responses).for,
                         FromResponse(issued[id].cmd, Head(responses).frame)>>
                  ELSE <<id, id, Err("connection reset by server")>>
       IN  /\ IF Len(inflight) = 2 THEN TRUE
              ELSE responses # <<>> \/ (~connected /\ requests = <<>>)
           /\ responses' = IF Len(inflight) = 1 /\ responses # <<>>
                           THEN Tail(responses) ELSE responses
           /\ delivered' = IF id \in gone THEN delivered ELSE delivered \cup {got}
    /\ inflight' = None
    /\ UNCHANGED <<issued, queue, gone, handles, requests, remote, sent_ids,
                   connected, task_done>>
    /\ UNCHANGED otherThanBuffer

\* run: rx.recv() returns None once every handle is dropped
TaskEnds ==
    /\ ~task_done
    /\ inflight = None
    /\ queue = <<>>
    /\ handles = {}
    /\ task_done' = TRUE
    /\ UNCHANGED <<issued, queue, gone, handles, inflight, requests, responses,
                   remote, delivered, sent_ids, connected>>
    /\ UNCHANGED otherThanBuffer

\* the server's handler reads the next request, applies it and writes the
\* reply
ServerApplies ==
    /\ connected
    /\ requests # <<>>
    /\ LET id == Head(requests)
       IN  /\ responses' = Append(responses,
                   [for |-> id, frame |-> ServerReply(remote, issued[id].cmd)])
           /\ remote' = ServerStore(remote, issued[id].cmd)
    /\ requests' = Tail(requests)
    /\ UNCHANGED <<issued, queue, gone, handles, inflight, delivered, sent_ids,
                   connected, task_done>>
    /\ UNCHANGED otherThanBuffer

\* the server closes the connection: what it has not read is lost
ServerCloses ==
    /\ connected
    /\ connected' = FALSE
    /\ requests' = <<>>
    /\ UNCHANGED <<issued, queue, gone, handles, inflight, responses, remote,
                   delivered, sent_ids, task_done>>
    /\ UNCHANGED otherThanBuffer

BufferNext ==
    \/ \E c \in Callers, cmd \in BufferedCommands : BufferedCall(c, cmd)
    \/ \E c \in Callers : CallerGivesUp(c)
    \/ \E c \in Callers : HandleDropped(c)
    \/ \E wrote \in BOOLEAN : TaskSend(wrote)
    \/ TaskRespond
    \/ TaskEnds
    \/ ServerApplies
    \/ ServerCloses

\* ---------------------------------------------------------------------
\* the connections: Handler::run on the frames of a client, against the
\* shared Db

\* bytes read_frame cannot parse
Malformed == <<"Malformed">>

\* the sequences of request frames a client writes; 0xff names a byte that
\* is neither ASCII nor UTF-8
ConnScripts ==
    {<<Array(<<Bulk("get"), Bulk("hello")>>),
       Array(<<Bulk("set"), Bulk("hello"), Bulk("v2"), Bulk("EX"), Integer(1)>>)>>,
     <<Array(<<Bulk("set"), Bulk("hello"), Bulk("v2"), Bulk("EX"), Integer(1)>>),
       Array(<<Bulk("PING"), Bulk("0xff")>>)>>,
     <<Array(<<Bulk("PING")>>),
       Array(<<Bulk("publish"), Bulk("hello"), Bulk("v1")>>)>>,
     <<Array(<<Bulk("subscribe"), Bulk("hello")>>),
       Array(<<Bulk("get"), Bulk("hello")>>)>>,
     <<Array(<<Bulk("subscribe"), Bulk("hello")>>),
       Array(<<Bulk("subscribe"), Bulk("hello")>>)>>,
     <<Array(<<Bulk("subscribe"), Bulk("hello")>>),
       Array(<<Bulk("unsubscribe")>>)>>,
     <<Array(<<Bulk("subscribe"), Bulk("hello")>>), Simple("PING")>>,
     <<Array(<<Bulk("subscribe"), Bulk("hello"), Bulk("world")>>)>>,
     <<Array(<<Bulk("unsubscribe")>>)>>,
     <<Simple("PING")>>,
     <<Malformed>>}

\* the frames of the scripts
ConnFrames == UNION {{s[i] : i \in 1..Len(s)} : s \in ConnScripts}

InitConn ==
    /\ sock = [c \in Conns |-> <<>>]
    /\ closed = [c \in Conns |-> "open"]
    /\ reqs = [c \in Conns |-> <<>>]
    /\ wbuf = [c \in Conns |-> <<>>]
    /\ reps = [c \in Conns |-> <<>>]
    /\ cur = [c \in Conns |-> None]
    /\ herr = [c \in Conns |-> None]
    /\ crx = [c \in Conns |-> <<>>]

\* the State behind the mutex, with the broadcast channels of its Senders
DbState ==
    [entries |-> entries, expirations |-> expirations, pub_sub |-> pub_sub,
     rxCount |-> rxCount, chanLog |-> chanLog]

\* a SET that takes the name for itself: a Sender under the same name is
\* removed
Db_set_exclusive(db, key, value, expires_at) ==
    [db EXCEPT !.entries = SetEntries(db.entries, key, value, expires_at),
               !.expirations = SetExpirations(db.entries, db.expirations, key,
                                              expires_at),
               !.pub_sub = @ \ {key}]

\* Db::set on the State
Db_set(db, key, value, expires_at) ==
    [db EXCEPT !.entries = SetEntries(db.entries, key, value, expires_at),
               !.expirations = SetExpirations(db.entries, db.expirations, key,
                                              expires_at)]

\* Db::publish on the State: the message enters the channel when send is Ok
Db_publish(db, ch, msg) ==
    IF SendOk(db.pub_sub, db.rxCount, ch)
    THEN [db EXCEPT !.chanLog[ch] = Append(@, msg)]
    ELSE db

\* Db::subscibe on the State: the Sender is created when absent, and a
\* Receiver is attached to it
Db_subscibe(db, ch) ==
    [db EXCEPT !.pub_sub = @ \cup {ch}, !.rxCount[ch] = @ + 1]

\* subscibe_to_channel from subscriptions.insert on: the stream of the new
\* Receiver replaces the one the map holds for the channel, whose Receiver is
\* dropped, and the acknowledgement counts the entries of the map
subscriptions_insert(db, map, rx) ==
    LET newmap == StreamMapInsert(map, rx.ch, rx)
    IN  [db |-> [db EXCEPT !.rxCount[rx.ch] = @ - Replaced(map, newmap)],
         map |-> newmap,
         ack |-> make_subscribe_frame(rx.ch, Len(newmap))]

\* subscibe_to_channel up to its write_frame
subscibe_to_channel(db, map, ch) ==
    subscriptions_insert(Db_subscibe(db, ch), map,
                         [ch |-> ch, next |-> subscibe(db.chanLog[ch])])

\* Subcribe::apply, the loop over self.channels.drain(..): the State, the
\* subscriptions and the acknowledgements written once every channel of the
\* list is subscribed
RECURSIVE Subcribe_apply(_, _, _, _)
Subcribe_apply(db, map, channels, acks) ==
    IF channels = <<>> THEN [db |-> db, map |-> map, acks |-> acks]
    ELSE LET r == subscibe_to_channel(db, map, Head(channels))
         IN  Subcribe_apply(r.db, r.map, Tail(channels), Append(acks, r.ack))

\* the State after the command is applied; a SUBSCRIBE starts from the empty
\* StreamMap of Subcribe::apply
Db_apply(db, cmd, t) ==
    IF cmd[1] = "Set"
    THEN Db_set(db, cmd[2], cmd[3], SetExpiresAt(t, cmd[4]))
    ELSE IF cmd[1] = "Publish" THEN Db_publish(db, cmd[2], cmd[3])
    ELSE IF cmd[1] = "Subcribe" THEN Subcribe_apply(db, <<>>, cmd[2], <<>>).db
    ELSE db

\* the frames the command's apply writes, on the State it is applied to; the
\* apply of an UNSUBSCRIBE returns its error and writes no frame
ApplyReplies(db, cmd) ==
    IF cmd[1] = "Get" THEN <<GetReply(db.entries, cmd[2])>>
    ELSE IF cmd[1] = "Set" THEN <<Simple("OK")>>
    ELSE IF cmd[1] = "Publish"
    THEN <<Integer(publish(db.pub_sub, db.rxCount, cmd[2]))>>
    ELSE IF cmd[1] = "Ping" THEN <<PingReply(cmd[2])>>
    ELSE IF cmd[1] = "Subcribe"
    THEN Subcribe_apply(db, <<>>, cmd[2], <<>>).acks
    ELSE IF cmd[1] = "Unsubscribe" THEN <<>>
    ELSE <<UnknownReply(get_name(cmd))>>

\* the errors of a write on a connection the client has reset
WriteErrors == {"broken pipe", "connection reset by peer"}

\* a write_frame that leaves the frame in the BufWriter
NoFlush(flushed, buf) == <<flushed, buf>>

\* Connection::write_frame ends with self.stream.flush(): what the BufWriter
\* holds goes to the socket
Flush(flushed, buf) == <<flushed \o buf, <<>> >>

\* an error of Handler::run that ends Listener::run as well
TaskRaises(l, res) == IF res[1] = "Err" THEN "failed" ELSE l

\* the task Listener::run spawned logs the error of Handler::run: the accept
\* loop is where it was
TaskLogs(l, res) == l

\* the handler leaves its loop with res: Handler::run has returned once the
\* subscriptions of Subcribe::apply, which are dropped entry by entry, are
\* gone; a write_frame fails after subscriptions.insert, so that no Receiver
\* is held outside the map
Returns(c, res) ==
    /\ hst' = [hst EXCEPT ![c] = IF crx[c] = <<>> THEN "returned" ELSE "dropping"]
    /\ herr' = [herr EXCEPT ![c] = Some(res)]
    /\ lpc' = TaskLogs(lpc, res)
    /\ cur' = [cur EXCEPT ![c] = None]
    /\ UNCHANGED <<rxCount, crx>>

\* the StreamMap of a handler that left Subcribe::apply is dropped: its Vec
\* drops the entries from the first on, each with its Receiver, and
\* Handler::run returns to its task after the last
HandlerDrops(c) ==
    /\ hst[c] = "dropping"
    /\ crx[c] # <<>>
    /\ rxCount' = [rxCount EXCEPT ![Head(crx[c]).ch] = @ - 1]
    /\ crx' = [crx EXCEPT ![c] = Tail(@)]
    /\ hst' = [hst EXCEPT ![c] = IF Tail(crx[c]) = <<>> THEN "returned"
                                  ELSE "dropping"]
    /\ UNCHANGED <<sock, closed, reqs, wbuf, reps, cur, herr, lpc>>
    /\ UNCHANGED <<pub_sub, chanLog, pubsubRest>>
    /\ UNCHANGED <<storeVars, serverRest, otherThanConn>>

\* a client writes the next request frame of a script: what it wrote so far
\* is what its handler has read and what waits in the socket
ClientSends(c, frame) ==
    /\ hst[c] \in Running
    /\ closed[c] = "open"
    /\ \E s \in ConnScripts :
          /\ Len(reqs[c]) + Len(sock[c]) < Len(s)
          /\ SubSeq(s, 1, Len(reqs[c]) + Len(sock[c]) + 1)
                = Append(reqs[c] \o sock[c], frame)
    /\ sock' = [sock EXCEPT ![c] = Append(@, frame)]
    /\ UNCHANGED <<closed, reqs, wbuf, reps, cur, herr, crx>>
    /\ UNCHANGED <<storeVars, pubsubVars, serverVars, otherThanConn>>

\* a client closes its socket, and the handler reads what was written before
\* it, or its connection is reset, and what the handler has not read is lost
ClientCloses(c, how) ==
    /\ hst[c] \in Running
    /\ closed[c] = "open"
    /\ closed' = [closed EXCEPT ![c] = how]
    /\ sock' = [sock EXCEPT ![c] = IF how = "reset" THEN <<>> ELSE @]
    /\ UNCHANGED <<reqs, wbuf, reps, cur, herr, crx>>
    /\ UNCHANGED <<storeVars, pubsubVars, serverVars, otherThanConn>>

\* what the handler is at work on: the command, or the message of a
\* subscription; whether it is decoded, holds a Receiver to insert, or is in
\* write_frame; whether it changed the key-space; the Receiver db.subscibe
\* returned
Work(cmd, at) == [cmd |-> cmd, at |-> at, changed |-> FALSE, rx |-> None]

\* Handler::run: read_frame yields a frame and Command::from_frame decodes
\* it; read_frame fails on bytes that are no frame, and apply on an
\* UNSUBSCRIBE
HandlerReads(c) ==
    /\ hst[c] = "select"
    /\ sock[c] # <<>>
    /\ sock' = [sock EXCEPT ![c] = Tail(@)]
    /\ LET frame == Head(sock[c])
           res == from_frame(frame)
       IN  IF frame = Malformed
           THEN /\ Returns(c, Err("protocol error; invalid frame format"))
                /\ UNCHANGED reqs
           ELSE /\ reqs' = [reqs EXCEPT ![c] = Append(@, frame)]
                /\ IF ~IsOk(res)
                   THEN Returns(c, res)
                   ELSE IF res[2][1] = "Unsubscribe"
                   THEN Returns(c, Err("Unsubscribe is unsupported in this context."))
                   ELSE /\ cur' = [cur EXCEPT ![c] = Some(Work(res[2], "decoded"))]
                        /\ hst' = [hst EXCEPT ![c] = "apply"]
                        /\ UNCHANGED <<herr, lpc, rxCount, crx>>
    /\ UNCHANGED <<closed, wbuf, reps>>
    /\ UNCHANGED <<pub_sub, chanLog, pubsubRest>>
    /\ UNCHANGED <<storeVars, serverRest, otherThanConn>>

\* Subcribe::apply, the branch of read_frame in select!: handle_command
\* decodes the frame, keeps the channels of a SUBSCRIBE for the loop, fills
\* the list of an UNSUBSCRIBE without channels from the keys of the
\* subscriptions, and answers any other command as unknown; an error of
\* read_frame or of Command::from_frame returns through Handler::run
HandlerSelectReads(c) ==
    /\ hst[c] = "pubsub"
    /\ sock[c] # <<>>
    /\ sock' = [sock EXCEPT ![c] = Tail(@)]
    /\ LET frame == Head(sock[c])
           res == from_frame(frame)
           cmd == res[2]
           channels == IF cmd[2] = <<>> THEN keys(crx[c]) ELSE cmd[2]
       IN  IF frame = Malformed
           THEN /\ Returns(c, Err("protocol error; invalid frame format"))
                /\ UNCHANGED <<reqs, wbuf>>
           ELSE /\ reqs' = [reqs EXCEPT ![c] = Append(@, frame)]
                /\ IF ~IsOk(res)
                   THEN Returns(c, res) /\ UNCHANGED wbuf
                   ELSE IF cmd[1] = "Subcribe"
                   THEN /\ cur' = [cur EXCEPT ![c] = Some(Work(cmd, "decoded"))]
                        /\ hst' = [hst EXCEPT ![c] = "handle"]
                        /\ UNCHANGED <<herr, lpc, rxCount, crx, wbuf>>
                   ELSE IF cmd[1] = "Unsubscribe"
                   THEN /\ IF channels = <<>>
                           THEN UNCHANGED <<cur, hst>>
                           ELSE /\ cur' = [cur EXCEPT ![c] =
                                     Some(Work(<<"Unsubscribe", channels>>,
                                               "decoded"))]
                                /\ hst' = [hst EXCEPT ![c] = "handle"]
                        /\ UNCHANGED <<herr, lpc, rxCount, crx, wbuf>>
                   ELSE /\ cur' = [cur EXCEPT ![c] = Some(Work(cmd, "write"))]
                        /\ wbuf' = [wbuf EXCEPT ![c] =
                                      Append(@, UnknownReply(get_name(cmd)))]
                        /\ hst' = [hst EXCEPT ![c] = "handle"]
                        /\ UNCHANGED <<herr, lpc, rxCount, crx>>
    /\ UNCHANGED <<closed, reps>>
    /\ UNCHANGED <<pub_sub, chanLog, pubsubRest>>
    /\ UNCHANGED <<storeVars, serverRest, otherThanConn>>

\* Handler::run or Subcribe::apply: read_frame returns None on the closed
\* socket and the handler returns Ok, or read_frame fails with the I/O error
\* of the reset connection; the Receivers are dropped with the handler
HandlerEof(c) ==
    /\ hst[c] \in {"select", "pubsub"}
    /\ closed[c] # "open"
    /\ sock[c] = <<>>
    /\ Returns(c, IF closed[c] = "fin" THEN Ok(None)
                  ELSE Err("connection reset by peer"))
    /\ UNCHANGED <<sock, closed, reqs, wbuf, reps>>
    /\ UNCHANGED <<pub_sub, chanLog, pubsubRest>>
    /\ UNCHANGED <<storeVars, serverRest, otherThanConn>>

\* cmd.apply(db, connection, shutdown) of a command other than SUBSCRIBE, up
\* to the await of write_frame: the command acts on the Db under its mutex
\* and its reply is in the BufWriter; Db::set releases the mutex before it
\* notifies the background task, and its reply follows the notification
HandlerApplies(c) ==
    /\ hst[c] = "apply"
    /\ cur[c] # None
    /\ cur[c][1].at = "decoded"
    /\ cur[c][1].cmd[1] # "Subcribe"
    /\ LET cmd == cur[c][1].cmd
           db == Db_apply(DbState, cmd, now)
           notify == /\ cmd[1] = "Set"
                     /\ SetNotify(expirations, SetExpiresAt(now, cmd[4]))
       IN  /\ entries' = db.entries
           /\ expirations' = db.expirations
           /\ pub_sub' = db.pub_sub
           /\ chanLog' = db.chanLog
           /\ rxCount' = db.rxCount
           /\ wbuf' = [wbuf EXCEPT ![c] =
                         IF notify THEN @ ELSE @ \o ApplyReplies(DbState, cmd)]
           /\ cur' = [cur EXCEPT ![c] =
                        Some([@[1] EXCEPT !.at = IF notify THEN "notify" ELSE "write",
                                          !.changed = \/ db.entries # entries
                                                      \/ db.expirations # expirations])]
    /\ UNCHANGED <<sock, closed, reqs, reps, herr, crx, hst, lpc>>
    /\ UNCHANGED <<permit, waiter, storeRest, pubsubRest, serverRest,
                   otherThanConn>>

\* Db::set past drop(state): background_task.notify_one(), then Set::apply
\* puts its reply in the BufWriter
HandlerNotifies(c) ==
    /\ hst[c] = "apply"
    /\ cur[c] # None
    /\ cur[c][1].at = "notify"
    /\ NotifyOne
    /\ wbuf' = [wbuf EXCEPT ![c] = @ \o ApplyReplies(DbState, cur[c][1].cmd)]
    /\ cur' = [cur EXCEPT ![c] = Some([@[1] EXCEPT !.at = "write"])]
    /\ UNCHANGED <<sock, closed, reqs, reps, herr, crx, hst, lpc>>
    /\ UNCHANGED <<entries, expirations, storeRest, pubsubVars, serverRest,
                   otherThanConn>>

\* subscibe_to_channel on the next channel of self.channels: db.subscibe
\* returns a Receiver whose cursor is the tail of the channel
HandlerSubscribes(c) ==
    /\ hst[c] \in {"apply", "handle"}
    /\ cur[c] # None
    /\ cur[c][1].at = "decoded"
    /\ cur[c][1].cmd[1] = "Subcribe"
    /\ LET ch == Head(cur[c][1].cmd[2])
           db == Db_subscibe(DbState, ch)
       IN  /\ pub_sub' = db.pub_sub
           /\ rxCount' = db.rxCount
           /\ cur' = [cur EXCEPT ![c] =
                        Some([@[1] EXCEPT
                                !.at = "insert",
                                !.rx = Some([ch |-> ch,
                                             next |-> subscibe(chanLog[ch])])])]
    /\ hst' = [hst EXCEPT ![c] = "handle"]
    /\ UNCHANGED <<sock, closed, reqs, wbuf, reps, herr, crx, lpc, chanLog>>
    /\ UNCHANGED <<storeVars, pubsubRest, serverRest, otherThanConn>>

\* subscibe_to_channel: the stream enters the subscriptions and the
\* acknowledgement is in the BufWriter
HandlerInserts(c) ==
    /\ hst[c] = "handle"
    /\ cur[c] # None
    /\ cur[c][1].at = "insert"
    /\ LET r == subscriptions_insert(DbState, crx[c], cur[c][1].rx[1])
       IN  /\ rxCount' = r.db.rxCount
           /\ crx' = [crx EXCEPT ![c] = r.map]
           /\ wbuf' = [wbuf EXCEPT ![c] = Append(@, r.ack)]
    /\ cur' = [cur EXCEPT ![c] =
                 Some([@[1] EXCEPT !.at = "write", !.rx = None,
                                   !.cmd = <<"Subcribe", Tail(@[2])>>])]
    /\ UNCHANGED <<sock, closed, reqs, reps, herr, hst, lpc, pub_sub, chanLog>>
    /\ UNCHANGED <<storeVars, pubsubRest, serverRest, otherThanConn>>

\* handle_command on the next channel of an UNSUBSCRIBE: the stream leaves
\* the subscriptions, its Receiver is dropped, and the acknowledgement, with
\* the number of subscriptions left, is in the BufWriter
HandlerUnsubscribes(c) ==
    /\ hst[c] = "handle"
    /\ cur[c] # None
    /\ cur[c][1].at = "decoded"
    /\ cur[c][1].cmd[1] = "Unsubscribe"
    /\ LET ch == Head(cur[c][1].cmd[2])
           newmap == StreamMapRemove(crx[c], ch)
       IN  /\ rxCount' = [rxCount EXCEPT ![ch] = @ - (Len(crx[c]) - Len(newmap))]
           /\ crx' = [crx EXCEPT ![c] = newmap]
           /\ wbuf' = [wbuf EXCEPT ![c] =
                         Append(@, make_unsubscribe_frame(ch, Len(newmap)))]
    /\ cur' = [cur EXCEPT ![c] =
                 Some([@[1] EXCEPT !.at = "write",
                                   !.cmd = <<"Unsubscribe", Tail(@[2])>>])]
    /\ UNCHANGED <<sock, closed, reqs, reps, herr, hst, lpc, pub_sub, chanLog>>
    /\ UNCHANGED <<storeVars, pubsubRest, serverRest, otherThanConn>>

\* the await of write_frame completes: the BufWriter is flushed to the socket
\* and the handler goes on, to read the next frame or to the next channel of
\* its list; or the write fails on the reset connection and the error
\* returns through Handler::run, after the command acted on the Db
HandlerWrites(c, res) ==
    /\ hst[c] \in {"apply", "handle"}
    /\ cur[c] # None
    /\ cur[c][1].at = "write"
    /\ IsOk(res) \/ closed[c] = "reset"
    /\ LET more == /\ cur[c][1].cmd[1] \in {"Subcribe", "Unsubscribe"}
                   /\ cur[c][1].cmd[2] # <<>>
           written == Flush(reps[c], wbuf[c])
       IN  IF IsOk(res)
           THEN /\ reps' = [reps EXCEPT ![c] = written[1]]
                /\ wbuf' = [wbuf EXCEPT ![c] = written[2]]
                /\ hst' = [hst EXCEPT ![c] =
                             IF hst[c] = "apply" THEN "select"
                             ELSE IF more THEN "handle" ELSE "pubsub"]
                /\ cur' = [cur EXCEPT ![c] =
                             IF hst[c] = "handle" /\ more
                             THEN Some([@[1] EXCEPT !.at = "decoded"])
                             ELSE None]
                /\ UNCHANGED <<herr, lpc, rxCount, crx>>
           ELSE /\ Returns(c, res)
                /\ UNCHANGED <<reps, wbuf>>
    /\ UNCHANGED <<sock, closed, reqs>>
    /\ UNCHANGED <<pub_sub, chanLog, pubsubRest>>
    /\ UNCHANGED <<storeVars, serverRest, otherThanConn>>

\* Subcribe::apply: subscriptions.next() yields a message, which leaves its
\* stream, and make_message_frame is in the BufWriter for the awaited
\* write_frame
HandlerForwards(c, ch) ==
    /\ hst[c] = "pubsub"
    /\ Position(crx[c], ch) # 0
    /\ Ready(chanLog[ch], crx[c][Position(crx[c], ch)].next)
    /\ LET i == Position(crx[c], ch)
           pos == RecvFrom(chanLog[ch], crx[c][i].next)
           msg == Received(chanLog[ch], pos)
       IN  /\ crx' = [crx EXCEPT ![c][i].next = pos + 1]
           /\ wbuf' = [wbuf EXCEPT ![c] = Append(@, make_message_frame(ch, msg))]
           /\ cur' = [cur EXCEPT ![c] = Some(Work(<<"Message", ch, msg>>, "write"))]
    /\ hst' = [hst EXCEPT ![c] = "handle"]
    /\ UNCHANGED <<sock, closed, reqs, reps, herr, lpc>>
    /\ UNCHANGED <<storeVars, pubsubVars, serverRest, otherThanConn>>

\* the connections that have a client
Clients == {1, 2}

\* the accept loop, the clients and the handlers of the connections
ConnNext ==
    \/ ListenerAcquire
    \/ \E c \in Clients : AcceptOk(c)
    \/ \E c \in Clients, frame \in ConnFrames : ClientSends(c, frame)
    \/ \E c \in Clients, how \in {"fin", "reset"} : ClientCloses(c, how)
    \/ \E c \in Clients : HandlerReads(c)
    \/ \E c \in Clients : HandlerSelectReads(c)
    \/ \E c \in Clients : HandlerEof(c)
    \/ \E c \in Clients : HandlerApplies(c)
    \/ \E c \in Clients : HandlerNotifies(c)
    \/ \E c \in Clients : HandlerSubscribes(c)
    \/ \E c \in Clients : HandlerInserts(c)
    \/ \E c \in Clients : HandlerUnsubscribes(c)
    \/ \E c \in Clients, res \in {Ok(None)} \cup {Err(e) : e \in WriteErrors} :
          HandlerWrites(c, res)
    \/ \E c \in Clients, ch \in Channels : HandlerForwards(c, ch)
    \/ \E c \in Clients : HandlerDrops(c)
    \/ \E c \in Clients : DropPermit(c)
    \/ \E c \in Clients : DropHandler(c)

\* ------------------------------------------- the bytes of one connection

\* str::as_bytes of the texts the handler writes
as_bytes ==
    ("subscribe" :> <<"s", "u", "b", "s", "c", "r", "i", "b", "e">>) @@
    ("unsubscribe" :> <<"u", "n", "s", "u", "b", "s", "c", "r", "i", "b", "e">>) @@
    ("message" :> <<"m", "e", "s", "s", "a", "g", "e">>) @@
    ("hello" :> <<"h", "e", "l", "l", "o">>) @@
    ("world" :> <<"w", "o", "r", "l", "d">>) @@
    ("v1" :> <<"v", "1">>) @@
    ("OK" :> <<"O", "K">>) @@
    ("ERR unknown command 'unsubscribe'" :> <<"E", "R", "R", " ", "u", "n", "k", "n", "o", "w", "n", " ", "c", "o", "m", "m", "a", "n", "d", " ", "'", "u", "n", "s", "u", "b", "s", "c", "r", "i", "b", "e", "'">>) @@
    ("ERR unknown command 'get'" :> <<"E", "R", "R", " ", "u", "n", "k", "n", "o", "w", "n", " ", "c", "o", "m", "m", "a", "n", "d", " ", "'", "g", "e", "t", "'">>) @@
    ("ERR unknown command 'set'" :> <<"E", "R", "R", " ", "u", "n", "k", "n", "o", "w", "n", " ", "c", "o", "m", "m", "a", "n", "d", " ", "'", "s", "e", "t", "'">>) @@
    ("ERR unknown command 'publish'" :> <<"E", "R", "R", " ", "u", "n", "k", "n", "o", "w", "n", " ", "c", "o", "m", "m", "a", "n", "d", " ", "'", "p", "u", "b", "l", "i", "s", "h", "'">>)

\* the frame as Connection::write_frame receives it: the texts as bytes, the
\* replies of the pub/sub mode as the arrays make_*_frame builds
FrameOf(reply) ==
    CASE reply[1] \in {"subscribe", "unsubscribe"} ->
            Array(<<Bulk(as_bytes[reply[1]]), Bulk(as_bytes[reply[2]]),
                    Integer(reply[3])>>)
      [] reply[1] = "message" ->
            Array(<<Bulk(as_bytes[reply[1]]), Bulk(as_bytes[reply[2]]),
                    Bulk(as_bytes[reply[3]])>>)
      [] reply[1] \in {"Simple", "Error", "Bulk"} -> <<reply[1], as_bytes[reply[2]]>>
      [] OTHER -> reply

\* Connection::write_decimal: two calls of write_all
decimal_calls(val) == <<Digits(val), <<CR, LF>>>>

\* Connection::write_value: the bytes of each call of write_u8 and write_all;
\* an Array is unreachable!()
value_calls(frame) ==
    CASE frame[1] = "Simple" -> <<<<"+">>, frame[2], <<CR, LF>>>>
      [] frame[1] = "Error" -> <<<<"-">>, frame[2], <<CR, LF>>>>
      [] frame[1] = "Integer" -> <<<<":">>>> \o decimal_calls(frame[2])
      [] frame[1] = "Null" -> <<<<"$", "-", "1", CR, LF>>>>
      [] frame[1] = "Bulk" ->
            <<<<"$">>>> \o decimal_calls(Len(frame[2])) \o <<frame[2], <<CR, LF>>>>
      [] frame[1] = "Array" -> Panic("internal error: entered unreachable code")

RECURSIVE values_calls(_)
values_calls(vec) ==
    IF vec = <<>> THEN <<>>
    ELSE LET entry == value_calls(Head(vec))
         IN IF IsPanic(entry) THEN entry
            ELSE LET rest == values_calls(Tail(vec))
                 IN IF IsPanic(rest) THEN rest ELSE entry \o rest

\* Connection::write_frame before its flush: the calls on the BufWriter
frame_calls(frame) ==
    IF frame[1] = "Array"
    THEN LET elems == values_calls(frame[2])
         IN IF IsPanic(elems) THEN elems
            ELSE <<<<"*">>>> \o decimal_calls(Len(frame[2])) \o elems
    ELSE value_calls(frame)

\* the sequences of commands a client sends
StreamScripts ==
    {<<<<"Set", "hello", "v1", None>>, <<"Subcribe", <<"hello">>>>,
       <<"Unsubscribe", <<>>>>>>,
     <<<<"Subcribe", <<"hello">>>>, <<"Get", "hello">>, <<"Subcribe", <<"hello">>>>>>,
     <<<<"Subcribe", <<"world", "hello">>>>, <<"Unsubscribe", <<"hello">>>>,
       <<"Publish", "hello", "v1">>>>,
     <<<<"Get", "hello">>, <<"Unsubscribe", <<>>>>>>,
     <<<<"Subcribe", <<"hello">>>>, <<"Unsubscribe", <<>>>>,
       <<"Set", "hello", "v1", None>>>>}

InitStream ==
    /\ spc = "run"
    /\ swrite = None
    /\ sbuf = <<>>
    /\ ssock = <<>>
    /\ schannels = <<>>
    /\ sunsub = <<>>
    /\ ssubs = <<>>
    /\ sinput = <<>>
    /\ speer = "open"
    /\ ssignal = FALSE
    /\ sentries = <<>>
    /\ sres = None
    /\ sapplied = <<>>
    /\ ssent = None
    /\ spublished = 0

\* a handler that goes back to Handler::run once it holds no subscription
LoopLeaves(map) == IF map = <<>> THEN "run" ELSE "drain"

\* Subcribe::apply, the loop: after a command it goes on from its top
\* whatever the subscriptions are
Loop(map) == "drain"

\* a write_frame whose future is started and not awaited
NotAwaited == TRUE

\* dst.write_frame(..).await in Subcribe::apply, subscibe_to_channel and
\* handle_command: the handler goes on when the write has completed
Awaited == swrite = None

\* a select! in Handler::run that would complete while apply is running
RunPolledAnytime == TRUE

\* select! in Handler::run is reached when cmd.apply has returned
RunPolled == swrite = None

\* the handler calls write_frame
WriteFrame(reply) ==
    /\ swrite' = Some(frame_calls(FrameOf(reply)))
    /\ sapplied' = Append(sapplied, FrameOf(reply))

\* Handler::run returns, and the connection is dropped with it
StreamReturns(res) ==
    /\ spc' = "returned"
    /\ sres' = Some(res)
    /\ swrite' = None
    /\ ssubs' = <<>>

\* an UNSUBSCRIBE in normal mode that is answered as an unknown command
UnsubscribeAnswered ==
    /\ WriteFrame(UnknownReply("unsubscribe"))
    /\ UNCHANGED <<spc, ssubs, sres>>

\* Command::apply, the arm of Unsubscribe: the error ends Handler::run
UnsubscribeUnsupported ==
    /\ StreamReturns(Err("Unsubscribe is unsupported in this context."))
    /\ UNCHANGED sapplied

\* the client writes a command
StreamClientSends(script) ==
    LET n == IF ssent = None THEN 0 ELSE ssent[1].n
    IN  /\ speer = "open"
        /\ ssent # None => ssent[1].script = script
        /\ n < Len(script)
        /\ ssent' = Some([script |-> script, n |-> n + 1])
        /\ sinput' = Append(sinput, script[n + 1])
        /\ UNCHANGED <<spc, swrite, sbuf, ssock, schannels, sunsub, ssubs, speer,
                       ssignal, sentries, sres, sapplied, spublished>>
        /\ UNCHANGED otherThanStream

\* the client closes its socket, or resets the connection
StreamClientCloses(how) ==
    /\ speer = "open"
    /\ speer' = how
    /\ UNCHANGED <<spc, swrite, sbuf, ssock, schannels, sunsub, ssubs, sinput,
                   ssignal, sentries, sres, sapplied, ssent, spublished>>
    /\ UNCHANGED otherThanStream

\* another connection publishes on the channel: the message enters the
\* connection's Receiver of the channel, the oldest giving way to it
StreamPublish(ch) ==
    /\ spublished < MaxPublished
    /\ spublished' = spublished + 1
    /\ ssubs' = [i \in 1..Len(ssubs) |->
                   IF ssubs[i].ch = ch /\ ssubs[i].next < ChannelCapacity
                   THEN [ssubs[i] EXCEPT !.next = @ + 1] ELSE ssubs[i]]
    /\ UNCHANGED <<spc, swrite, sbuf, ssock, schannels, sunsub, sinput, speer,
                   ssignal, sentries, sres, sapplied, ssent>>
    /\ UNCHANGED otherThanStream

\* the shutdown signal is sent
StreamSignal ==
    /\ ~ssignal
    /\ ssignal' = TRUE
    /\ UNCHANGED <<spc, swrite, sbuf, ssock, schannels, sunsub, ssubs, sinput,
                   speer, sentries, sres, sapplied, ssent, spublished>>
    /\ UNCHANGED otherThanStream

\* write_frame: one call of write_u8 or write_all on the BufWriter
StreamWriteCall ==
    /\ swrite # None
    /\ swrite[1] # <<>>
    /\ sbuf' = sbuf \o Head(swrite[1])
    /\ swrite' = Some(Tail(swrite[1]))
    /\ UNCHANGED <<spc, ssock, schannels, sunsub, ssubs, sinput, speer, ssignal,
                   sentries, sres, sapplied, ssent, spublished>>
    /\ UNCHANGED otherThanStream

\* the numbers of bytes the socket takes of a BufWriter it does not take
\* whole
SocketTakes == {4, 6}

\* write_frame: self.stream.flush() writes to the socket the n bytes it takes
\* and waits for the rest to be taken; it completes when the BufWriter is
\* empty, and fails on a connection the client has reset, with what was
\* taken before on the socket; the error ends Handler::run
StreamFlush(n, e) ==
    /\ swrite = Some(<<>>)
    /\ n = Len(sbuf) \/ (n \in SocketTakes /\ n < Len(sbuf))
    /\ IF speer = "reset"
       THEN /\ StreamReturns(Err(e))
            /\ UNCHANGED <<sbuf, ssock>>
       ELSE /\ ssock' = ssock \o SubSeq(sbuf, 1, n)
            /\ sbuf' = SubSeq(sbuf, n + 1, Len(sbuf))
            /\ swrite' = IF n = Len(sbuf) THEN None ELSE swrite
            /\ UNCHANGED <<spc, sres, ssubs>>
    /\ UNCHANGED <<schannels, sunsub, sinput, speer, ssignal, sentries, sapplied,
                   ssent, spublished>>
    /\ UNCHANGED otherThanStream

\* Handler::run, read_frame returned a frame: the command is decoded and
\* applied, and apply calls write_frame for its reply
StreamRunReads ==
    /\ spc = "run"
    /\ RunPolled
    /\ sinput # <<>>
    /\ sinput' = Tail(sinput)
    /\ LET cmd == Head(sinput)
       IN  CASE cmd[1] = "Unsubscribe" ->
                  /\ UnsubscribeUnsupported
                  /\ UNCHANGED <<schannels, sentries>>
             [] cmd[1] = "Subcribe" ->
                  /\ spc' = "drain"
                  /\ schannels' = cmd[2]
                  /\ UNCHANGED <<swrite, ssubs, sentries, sres, sapplied>>
             [] cmd[1] = "Set" ->
                  /\ sentries' = SetEntries(sentries, cmd[2], cmd[3], None)
                  /\ WriteFrame(Simple("OK"))
                  /\ UNCHANGED <<spc, schannels, ssubs, sres>>
             [] cmd[1] = "Get" ->
                  /\ WriteFrame(GetReply(sentries, cmd[2]))
                  /\ UNCHANGED <<spc, schannels, ssubs, sentries, sres>>
             [] cmd[1] = "Publish" ->
                  /\ WriteFrame(Integer(0))
                  /\ UNCHANGED <<spc, schannels, ssubs, sentries, sres>>
    /\ UNCHANGED <<sbuf, ssock, sunsub, speer, ssignal, ssent, spublished>>
    /\ UNCHANGED otherThanStream

\* Handler::run, read_frame at the end of the stream: None on a socket the
\* client closed, an error on a connection it reset
StreamRunEof ==
    /\ spc = "run"
    /\ RunPolled
    /\ sinput = <<>>
    /\ speer # "open"
    /\ StreamReturns(IF speer = "fin" THEN Ok("closed")
                     ELSE Err("connection reset by peer"))
    /\ UNCHANGED <<sbuf, ssock, schannels, sunsub, sinput, speer, ssignal,
                   sentries, sapplied, ssent, spublished>>
    /\ UNCHANGED otherThanStream

\* Handler::run, the shutdown branch of select!: return Ok(())
StreamRunShutdown ==
    /\ spc = "run"
    /\ RunPolled
    /\ ssignal
    /\ StreamReturns(Ok("shutdown"))
    /\ UNCHANGED <<sbuf, ssock, schannels, sunsub, sinput, speer, ssignal,
                   sentries, sapplied, ssent, spublished>>
    /\ UNCHANGED otherThanStream

\* Subcribe::apply, the loop over self.channels.drain(..): each channel is
\* subscribed to by subscibe_to_channel, which writes its acknowledgement
StreamDrain ==
    /\ spc = "drain"
    /\ Awaited
    /\ IF schannels = <<>>
       THEN /\ spc' = "select"
            /\ UNCHANGED <<swrite, schannels, ssubs, sapplied>>
       ELSE LET ch == Head(schannels)
                map == StreamMapInsert(ssubs, ch, [ch |-> ch, next |-> 0])
            IN  /\ ssubs' = map
                /\ schannels' = Tail(schannels)
                /\ WriteFrame(make_subscribe_frame(ch, Len(map)))
                /\ UNCHANGED spc
    /\ UNCHANGED <<sbuf, ssock, sunsub, sinput, speer, ssignal, sentries, sres,
                   ssent, spublished>>
    /\ UNCHANGED otherThanStream

\* Subcribe::apply, the branch of subscriptions.next(): a message is forwarded
StreamForward(i) ==
    /\ spc = "select"
    /\ Awaited
    /\ i \in 1..Len(ssubs)
    /\ ssubs[i].next > 0
    /\ ssubs' = [ssubs EXCEPT ![i].next = @ - 1]
    /\ WriteFrame(make_message_frame(ssubs[i].ch, "v1"))
    /\ spc' = "drain"
    /\ UNCHANGED <<sbuf, ssock, schannels, sunsub, sinput, speer, ssignal,
                   sentries, sres, ssent, spublished>>
    /\ UNCHANGED otherThanStream

\* Subcribe::apply, the branch of read_frame with a frame: handle_command
StreamSelectReads ==
    /\ spc = "select"
    /\ Awaited
    /\ sinput # <<>>
    /\ sinput' = Tail(sinput)
    /\ LET cmd == Head(sinput)
       IN  CASE cmd[1] = "Subcribe" ->
                  /\ schannels' = schannels \o cmd[2]
                  /\ spc' = "drain"
                  /\ UNCHANGED <<swrite, sunsub, sapplied>>
             [] cmd[1] = "Unsubscribe" ->
                  /\ sunsub' = IF cmd[2] = <<>> THEN keys(ssubs) ELSE cmd[2]
                  /\ spc' = "unsub"
                  /\ UNCHANGED <<swrite, schannels, sapplied>>
             [] OTHER ->
                  /\ WriteFrame(UnknownReply(get_name(cmd)))
                  /\ spc' = "drain"
                  /\ UNCHANGED <<schannels, sunsub>>
    /\ UNCHANGED <<sbuf, ssock, ssubs, speer, ssignal, sentries, sres, ssent,
                   spublished>>
    /\ UNCHANGED otherThanStream

\* handle_command, the loop over unsubscribe.channels
StreamUnsubscribe ==
    /\ spc = "unsub"
    /\ Awaited
    /\ IF sunsub = <<>>
       THEN /\ spc' = Loop(ssubs)
            /\ UNCHANGED <<swrite, sunsub, ssubs, sapplied>>
       ELSE LET ch == Head(sunsub)
                map == StreamMapRemove(ssubs, ch)
            IN  /\ ssubs' = map
                /\ sunsub' = Tail(sunsub)
                /\ WriteFrame(make_unsubscribe_frame(ch, Len(map)))
                /\ UNCHANGED spc
    /\ UNCHANGED <<sbuf, ssock, schannels, sinput, speer, ssignal, sentries,
                   sres, ssent, spublished>>
    /\ UNCHANGED otherThanStream

\* Subcribe::apply, the branch of read_frame at the end of the stream, and
\* Handler::run after it
StreamSelectEof ==
    /\ spc = "select"
    /\ Awaited
    /\ sinput = <<>>
    /\ speer # "open"
    /\ StreamReturns(IF speer = "fin" THEN Ok("closed")
                     ELSE Err("connection reset by peer"))
    /\ UNCHANGED <<sbuf, ssock, schannels, sunsub, sinput, speer, ssignal,
                   sentries, sapplied, ssent, spublished>>
    /\ UNCHANGED otherThanStream

\* Subcribe::apply, the branch of shutdown.recv(): apply returns Ok(()), and
\* the loop of Handler::run ends on is_shutdown()
StreamSelectShutdown ==
    /\ spc = "select"
    /\ Awaited
    /\ ssignal
    /\ StreamReturns(Ok("shutdown"))
    /\ UNCHANGED <<sbuf, ssock, schannels, sunsub, sinput, speer, ssignal,
                   sentries, sapplied, ssent, spublished>>
    /\ UNCHANGED otherThanStream

StreamNext ==
    \/ \E script \in StreamScripts : StreamClientSends(script)
    \/ \E how \in {"fin", "reset"} : StreamClientCloses(how)
    \/ \E ch \in Channels : StreamPublish(ch)
    \/ StreamSignal
    \/ StreamWriteCall
    \/ \E n \in SocketTakes \cup {Len(sbuf)}, e \in WriteErrors :
          StreamFlush(n, e)
    \/ StreamRunReads
    \/ StreamRunEof
    \/ StreamRunShutdown
    \/ StreamDrain
    \/ \E i \in 1..Len(ssubs) : StreamForward(i)
    \/ StreamSelectReads
    \/ StreamUnsubscribe
    \/ StreamSelectEof
    \/ StreamSelectShutdown

Init ==
    /\ InitStore /\ InitPubSub /\ InitServer /\ InitCodec /\ InitCommand
    /\ InitLock /\ InitBuffer /\ InitConn /\ InitReply /\ InitStream

ConnectionSpec == Init /\ [][ConnNext]_vars

BufferSpec == Init /\ [][BufferNext]_vars

MutexSpec == Init /\ [][MutexNext]_vars

Spec == Init /\ [][Next]_vars

PubSubSpec == Init /\ [][PubSubNext]_vars

HandlerSpec == Init /\ [][HandlerNext]_vars

LagSpec == Init /\ [][LagNext]_vars

ServerSpec == Init /\ [][ServerNext]_vars

CodecSpec == Init /\ [][CodecNext]_vars

CommandSpec == Init /\ [][CommandNext]_vars

\* the tasks are scheduled fairly and their writes complete; a select! polls
\* its ready branches in random order, so a branch ready again and again is
\* taken
LiveServerSpec ==
    /\ Init
    /\ [][ServerNext]_vars
    /\ WF_vars(RunListenerFailed \/ RunShutdown)
    /\ WF_vars(RunReturn)
    /\ \A c \in Conns :
          /\ WF_vars(HandlerApplied(c, FALSE) \/ HandlerApplied(c, TRUE))
          /\ SF_vars(HandlerShutdown(c))
          /\ WF_vars(DropPermit(c))
          /\ WF_vars(DropHandler(c))

\* The tasks are scheduled fairly: the purge worker keeps running, and a
\* handler that left the critical section of Db::set reaches its notify_one.
\* the purge worker is scheduled fairly and the notify_one of a Db::set and of
\* Db::shutdown_purge_task, which follow the release of the mutex, are reached
LiveShutdownSpec ==
    /\ Init
    /\ [][ShutdownNext]_vars
    /\ WF_vars(Worker)
    /\ WF_vars(\E h \in Handlers : SetNotified(h))
    /\ WF_vars(ShutdownNotified)

\* the store with its SETs and its purge worker
StoreSpec == Init /\ [][StoreNext]_vars

\* server::run with its handlers, the drop guard of the store and the purge
\* worker
DrainNext ==
    \/ ServerNext
    \/ RunDropsGuard
    \/ ShutdownNotified
    \/ Worker

DrainSpec == Init /\ [][DrainNext]_vars

StreamSpec == Init /\ [][StreamNext]_vars

ExpirySpec == Init /\ [][ExpiryNext]_vars

LiveSpec ==
    /\ Init
    /\ [][StoreNext]_vars
    /\ WF_vars(Worker)
    /\ WF_vars(\E h \in Handlers : SetNotified(h))

\* ------------------------------------------------------------ the claims

HasExpiry(k) == k \in DOMAIN entries /\ entries[k].expires_at # None

\* C1: the expiration index holds exactly the pairs (t, k) of the keys k whose
\* entry has expires_at = Some(t): one pair per such key, and no pair for an
\* absent key or for an entry without expiry.
IndexAgreesWithKeySpace ==
    expirations = {<<entries[k].expires_at[1], k>> : k \in {x \in Keys : HasExpiry(x)}}

\* a purge pass has removed one key while the entry of the other key, whose
\* expiry is still to come, has its pair in the index
IndexExercised ==
    /\ purged # {}
    /\ \E k \in Keys : HasExpiry(k) /\ entries[k].expires_at[1] > now

\* C2: every GET replies what the order of the critical sections calls for:
\* Bulk(v) for the value v of the latest SET of the key, Null when the key
\* was never set (or a purge pass removed it since that SET).
GetIsLinearizable ==
    lastGet # <<>> => lastGet[1] = lastGet[2]

\* a GET replied Bulk("v2") while some key holds "v2" from a SET without TTL
\* that replaced an entry with one, and a handler is between the critical
\* section of Db::set and its notify_one
GetAfterOverwrite ==
    /\ lastGet # <<>>
    /\ lastGet[1] = <<"Bulk", "v2">>
    /\ \E k \in Keys : /\ discarded[k] # None
                       /\ GetReply(entries, k) = <<"Bulk", "v2">>
    /\ \E h \in Handlers : hpc[h] = "notify"

MinInstant(exps) == next_expiration(exps)[1]

\* the worker is parked with no permit stored, no wake-up delivered and no
\* handler about to notify
WorkerParked ==
    /\ wpc = "waiting"
    /\ waiter = "waiting"
    /\ ~permit
    /\ \A h \in Handlers : hpc[h] # "notify"

NoLostWakeup ==
    WorkerParked =>
        \/ expirations = {}
        \/ wwhen # None /\ wwhen[1] <= MinInstant(expirations)

IsExpired(k) == HasExpiry(k) /\ entries[k].expires_at[1] <= now

\* C3: under fair scheduling a key whose expiry instant has passed is
\* eventually removed by the purge worker (unless a SET replaces the entry
\* first), after which GET replies Null; and the worker never waits past the
\* earliest expiry of the index without a notification pending.
ExpiredKeyIsPurged ==
    /\ []NoLostWakeup
    /\ \A k \in Keys :
          IsExpired(k) ~> (~IsExpired(k) /\ (k \in purged => GetReply(entries, k) = <<"Null">>))

\* a key was purged while the worker, woken before, is parked again on the
\* deadline of another key
PurgedThenParked ==
    /\ purged # {}
    /\ WorkerParked
    /\ wwhen # None

\* C4: a SET without TTL discards the previous time to live: as long as it is
\* the latest SET of its key, no purge pass removes the key and GET replies
\* Bulk of its value.
SetDiscardsTtl ==
    \A k \in Keys :
        (lastSet[k] # None /\ ~lastSet[k][1].ttl) =>
            /\ k \notin purged
            /\ GetReply(entries, k) = <<"Bulk", lastSet[k][1].data>>

\* SET k v1 with a TTL, then SET k v2 without: the old expiry instant has
\* passed, a purge pass has run since, and k is still there
OutlivedOldTtl ==
    \E k \in outlived :
        /\ discarded[k] = Some(0)
        /\ lastSet[k][1].data = "v2"
        /\ k \in DOMAIN entries

Range(seq) == {seq[i] : i \in 1..Len(seq)}

\* C5 -- PUBLISH replies Integer(n), n being the number of subscriber
\* endpoints attached to the channel at the moment of the send: 0 when the
\* channel has no broadcast endpoint or every subscriber of it is gone.
PublishRepliesReceiverCount ==
    lastPub # <<>> => lastPub[1] = <<"Integer", lastPub[2]>>

\* a PUBLISH was answered Integer(2): the channel had two endpoints attached
PublishedToTwo == lastPub # <<>> /\ lastPub[1] = <<"Integer", 2>>

\* the handler of a dropped subscriber of hello and world has dropped its
\* Receiver of hello and holds that of world: a PUBLISH on hello, whose
\* Sender is left without Receiver, was answered Integer(0)
PublishedBetweenDrops ==
    \E s \in Subs :
        /\ hmode[s] = "closing"
        /\ keys(subs[s]) = <<"world">>
        /\ rxCount = [c \in Channels |-> IF c = "world" THEN 1 ELSE 0]
        /\ published = <<"hello">>
        /\ lastPub = <<Integer(0), 0>>

\* C6 -- the messages forwarded to a subscriber from a channel are a
\* subsequence of those published on it after the subscriber's endpoint was
\* created: a message frame written for channel c carries a payload that was
\* published on c after the creation of the endpoint that yields it, and
\* that is later than every payload already forwarded from c.
ForwardedIsSubsequence ==
    [][\A s \in Subs :
         (Len(out'[s]) = Len(out[s]) + 1 /\ out'[s][Len(out'[s])][1] = "message")
         => LET c == out'[s][Len(out'[s])][2]
                n == out'[s][Len(out'[s])][3]
            IN  /\ n \in 1..Len(published)
                /\ published[n] = c
                /\ \E i \in 1..Len(subs[s]) :
                      subs[s][i].ch = c /\ n > subs[s][i].since
                /\ \A j \in 1..Len(out[s]) :
                      (out[s][j][1] = "message" /\ out[s][j][2] = c)
                      => out[s][j][3] < n]_vars

\* SUBSCRIBE hello world: two messages were published on hello before the
\* Receiver of world was created, so that both waited in the Receiver of
\* hello when the handler reached its select!, and they were forwarded in
\* the order of their PUBLISHes
ForwardedTwo ==
    \E s \in Subs :
        /\ published = <<"hello", "hello">>
        /\ keys(subs[s]) = <<"hello", "world">>
        /\ subs[s][2].since = 2
        /\ out[s] = <<make_subscribe_frame("hello", 1),
                      make_subscribe_frame("world", 2),
                      make_message_frame("hello", 1),
                      make_message_frame("hello", 2)>>

\* connection s is at the select! with no command to read and no message to
\* forward: it writes nothing more until a new command or PUBLISH arrives
Quiet(s) ==
    /\ AtSelect(s)
    /\ inbox[s] = <<>>
    /\ \A i \in 1..Len(subs[s]) : ~Ready(chanLog[subs[s][i].ch], subs[s][i].next)

\* C7 -- once the acknowledgement of channel c has been written to a
\* connection, every message published on c afterwards is written to it as
\* ["message", c, payload], as long as it stays subscribed to c and open and
\* does not lag: when the connection has nothing left to forward, none of
\* these messages is missing from what was written.
PublishedIsWritten ==
    \A s \in Subs, c \in Channels :
        (Quiet(s) /\ acked[s][c] # None /\ c \notin lagged[s])
        => \A n \in 1..Len(published) :
              (n > acked[s][c][1] /\ published[n] = c)
              => make_message_frame(c, n) \in Range(out[s])

\* the acknowledgements of UNSUBSCRIBE, written since the command was read
UnsubscribeAcks(s) ==
    SelectSeq(SubSeq(out[s], cmdg[s][1].pos + 1, Len(out[s])),
              LAMBDA f : f[1] = "unsubscribe")

\* the handler of s is through with an UNSUBSCRIBE without channels, the
\* last command sent to it
UnsubscribedAll(s) ==
    /\ cmdg[s] # None
    /\ cmdg[s][1].kind = "unsubscribe"
    /\ cmdg[s][1].channels = <<>>
    /\ unsubq[s] = <<>>
    /\ inbox[s] = <<>>

\* the server's part of C8: every subscription is removed, with one
\* acknowledgement per removed channel, the last of count 0
UnsubscribeAllServerSide ==
    \A s \in Subs :
        UnsubscribedAll(s)
        => /\ subs[s] = <<>>
           /\ Len(UnsubscribeAcks(s)) = Cardinality(cmdg[s][1].held)
           /\ {UnsubscribeAcks(s)[i][2] : i \in 1..Len(UnsubscribeAcks(s))}
                  = cmdg[s][1].held
           /\ \A i \in 1..Len(UnsubscribeAcks(s)) :
                  UnsubscribeAcks(s)[i][3] = Len(UnsubscribeAcks(s)) - i

\* C8 -- UNSUBSCRIBE without channels removes every subscription of the
\* connection, with one ["unsubscribe", channel, remaining] acknowledgement
\* per removed channel, the last of count 0; once the handler is through
\* with it and the client's unsubscribe call has returned, the server's
\* subscription set and the client's subscribed-channel list are empty.
UnsubscribeAllEmptiesBoth ==
    /\ UnsubscribeAllServerSide
    /\ \A s \in Subs :
          (UnsubscribedAll(s) /\ ccall[s][1].kind = "unsubscribe"
              /\ ccall[s][1].res # "reading")
          => subs[s] = <<>> /\ clist[s] = <<>>

\* C9 -- UNSUBSCRIBE of a channel the connection is not subscribed to is
\* not an error: the handler writes ["unsubscribe", channel, n] with n the
\* unchanged number of subscriptions, the subscription set is unchanged and
\* the connection stays in its subscribe loop.
UnsubscribeUnknownIsAcked ==
    [][\A s \in Subs :
         (/\ unsubq[s] # <<>>
          /\ unsubq'[s] = Tail(unsubq[s])
          /\ Head(unsubq[s]) \notin KeySet(subs[s]))
         => /\ subs'[s] = subs[s]
            /\ hmode'[s] = "pubsub"
            /\ out'[s] = Append(out[s],
                  <<"unsubscribe", Head(unsubq[s]), Len(subs[s])>>)]_vars

\* a connection subscribed to hello alone was acknowledged the UNSUBSCRIBE
\* of world with the count 1, and is still in its subscribe loop
UnknownUnsubscribed ==
    \E s \in Subs :
        /\ AtSelect(s)
        /\ KeySet(subs[s]) = {"hello"}
        /\ cmdg[s][1].kind = "unsubscribe"
        /\ cmdg[s][1].held = {"hello"}
        /\ out[s][Len(out[s])] = <<"unsubscribe", "world", 1>>

\* C10 -- for every channel named in a SUBSCRIBE the handler writes one
\* ["subscribe", channel, count], in the order the channels were named,
\* count being the number of channels the connection is subscribed to once
\* that channel is added.
SubscribeAcksInOrder ==
    \A s \in Subs :
        (cmdg[s] # None /\ cmdg[s][1].kind = "subscribe")
        => LET c == cmdg[s][1]
               done == Len(c.channels) - Len(pending[s])
               written == SelectSeq(SubSeq(out[s], c.pos + 1, Len(out[s])),
                                    LAMBDA f : f[1] = "subscribe")
           IN  /\ Len(written) = done
               /\ Len(out[s]) >= c.pos + done
               /\ \A i \in 1..done :
                     out[s][c.pos + i] =
                       <<"subscribe", c.channels[i],
                         Cardinality(c.held \cup {c.channels[j] : j \in 1..i})>>

\* a connection subscribed to hello was sent SUBSCRIBE hello world and has
\* been acknowledged both, world with the count 2
SubscribedAgain ==
    \E s \in Subs :
        /\ AtSelect(s)
        /\ cmdg[s][1].kind = "subscribe"
        /\ cmdg[s][1].held = {"hello"}
        /\ cmdg[s][1].channels = <<"hello", "world">>
        /\ out[s][Len(out[s])] = <<"subscribe", "world", 2>>

\* the command the handler of s read last was read in this mode and decoded
Decoded(s, mode) ==
    /\ cmdg[s] # None
    /\ cmdg[s][1].mode = mode
    /\ cmdg[s][1].kind # "Err"

\* the handler of s answered the command it read last with this frame
Answered(s, frame) ==
    /\ Len(out[s]) > cmdg[s][1].pos
    /\ out[s][cmdg[s][1].pos + 1] = frame

UnknownError(name) == Error("ERR unknown command '" \o name \o "'")

\* what handle_command does: in pub/sub mode every command that decodes and is
\* neither SUBSCRIBE nor UNSUBSCRIBE, PING and QUIT included, is answered with
\* the unknown-command Error frame of its name, and the handler stays in its
\* subscribe loop.
PubSubModeRejectsOthers ==
    \A s \in Subs :
        (Decoded(s, "pubsub") /\ cmdg[s][1].kind \notin {"subscribe", "unsubscribe"})
        => Answered(s, UnknownError(cmdg[s][1].kind)) /\ hmode[s] = "pubsub"

\* C11 -- in pub/sub mode SUBSCRIBE, UNSUBSCRIBE, PING and QUIT are accepted, that
\* is not answered with the unknown-command Error frame, and every other
\* command is, without closing the connection.
PubSubModeAcceptsPing ==
    \A s \in Subs :
        Decoded(s, "pubsub")
        => IF cmdg[s][1].kind \in {"subscribe", "unsubscribe", "ping", "quit"}
           THEN ~Answered(s, UnknownError(cmdg[s][1].kind))
           ELSE Answered(s, UnknownError(cmdg[s][1].kind)) /\ hmode[s] = "pubsub"

\* a subscribed connection was answered the unknown-command error to a GET
\* and is still subscribed
GetRejectedInPubSub ==
    \E s \in Subs :
        /\ Decoded(s, "pubsub")
        /\ cmdg[s][1].kind = "get"
        /\ Answered(s, UnknownError("get"))
        /\ KeySet(subs[s]) = {"hello"}
        /\ AtSelect(s)

\* the command vocabulary of Command::from_frame
Vocabulary == {"get", "publish", "set", "subscribe", "unsubscribe", "ping"}

\* the name an array frame starts with, as received
NameOf(frame) == frame[2][1][2]

UnsupportedOption == Err("currently SET only supports the expiration option")

\* the handler of s read a frame and closed the connection without replying
ClosedUnanswered(s) ==
    /\ hmode[s] = "closed"
    /\ Len(out[s]) = cmdg[s][1].pos

\* C12 -- a command of an unknown name is answered with an Error frame and
\* the handler stays in its loop; a SET carrying an unsupported option fails
\* to decode, so the handler returns and the connection is closed with no
\* frame written for it.
UnknownIsReportedBadSetCloses ==
    \A s \in Subs :
        cmdg[s] # None /\ cmdg[s][1].mode = "normal"
        => /\ from_frame(cmdg[s][1].frame) = UnsupportedOption => ClosedUnanswered(s)
           /\ (cmdg[s][1].kind # "Err"
               /\ to_lowercase(NameOf(cmdg[s][1].frame)) \notin Vocabulary)
              => /\ Answered(s, UnknownError(cmdg[s][1].kind))
                 /\ hmode[s] = "normal"

\* C12 as stated: both semantic errors are answered with an Error frame and
\* the connection stays open.
SemanticErrorIsReported ==
    \A s \in Subs :
        (/\ cmdg[s] # None
         /\ cmdg[s][1].mode = "normal"
         /\ \/ from_frame(cmdg[s][1].frame) = UnsupportedOption
            \/ from_frame(cmdg[s][1].frame)[2][1] = "Unknown")
        => /\ Len(out[s]) > cmdg[s][1].pos
           /\ out[s][cmdg[s][1].pos + 1][1] = "Error"
           /\ hmode[s] # "closed"

\* a connection was answered the error of an unknown command, then sent a SET
\* with the option nx and was closed with nothing more written
BadSetClosedAfterUnknown ==
    \E s \in Subs :
        /\ cmdg[s] # None
        /\ cmdg[s][1].mode = "normal"
        /\ from_frame(cmdg[s][1].frame) = UnsupportedOption
        /\ hmode[s] = "closed"
        /\ out[s] = <<UnknownError("foo")>>

\* C13 -- decoding an array frame whose first element is a name outside the
\* vocabulary never fails, whatever arguments follow: it yields an Unknown
\* command carrying the lower-cased name, and applying it replies
\* Error("ERR unknown command 'name'") with the lower-cased name.
UnknownCarriesLowercasedName ==
    \A s \in Subs :
        (cmdg[s] # None /\ to_lowercase(NameOf(cmdg[s][1].frame)) \notin Vocabulary)
        => /\ from_frame(cmdg[s][1].frame)
                = Ok(<<"Unknown", to_lowercase(NameOf(cmdg[s][1].frame))>>)
           /\ Answered(s, UnknownError(to_lowercase(NameOf(cmdg[s][1].frame))))

\* C13 as stated: the Unknown command and its reply carry the name as
\* received.
UnknownCarriesNameAsReceived ==
    \A s \in Subs :
        (cmdg[s] # None /\ to_lowercase(NameOf(cmdg[s][1].frame)) \notin Vocabulary)
        => /\ from_frame(cmdg[s][1].frame) = Ok(<<"Unknown", NameOf(cmdg[s][1].frame)>>)
           /\ Answered(s, UnknownError(NameOf(cmdg[s][1].frame)))

\* FOO followed by a non-UTF-8 bulk and an integer was decoded and answered
UnknownWithArgumentsAnswered ==
    \E s \in Subs :
        /\ cmdg[s] # None
        /\ cmdg[s][1].frame = Array(<<Bulk("FOO"), Bulk("0xff"), Integer(1)>>)
        /\ cmdg[s][1].kind = "foo"
        /\ Answered(s, UnknownError("foo"))

\* the tasks holding a permit
Holders == {c \in Conns : hst[c] \in Holding}

\* Listener::run holds the permit it acquired for the connection to come
ListenerHolds == lpc \in {"accept", "sleep"}

\* C14 -- at most MAX_CONNECTIONS handlers are live at any time: a permit is
\* taken before accept, stays with the task until Handler::run has returned,
\* normally or with an error, and is then given back; once no task holds a
\* permit the full capacity is available to the listener again.
ConnectionLimitHolds ==
    /\ Cardinality(Holders) <= MaxConnections
    /\ available_permits >= 0
    /\ available_permits + Cardinality(Holders) + (IF ListenerHolds THEN 1 ELSE 0)
          = MaxConnections
    /\ (Holders = {} /\ ~ListenerHolds) => available_permits = MaxConnections

\* more connections than permits were served, and every permit is back
CapacityRestored ==
    /\ \A c \in Conns : hst[c] \in {"released", "dropped"}
    /\ Cardinality(Conns) > MaxConnections
    /\ available_permits = MaxConnections

\* C15 -- server::run returns only after the task of every spawned handler
\* has ended, whether the accept loop failed or the shutdown future
\* completed.
RunReturnsAfterHandlers ==
    rpc = "returned" => \A c \in Conns : hst[c] \in {"none", "dropped"}

\* server::run returned after a fatal accept error with handlers spawned
ReturnedAfterFatalAccept ==
    /\ rpc = "returned"
    /\ lpc = "failed"
    /\ ~shutdown_future
    /\ Cardinality({c \in Conns : hst[c] = "dropped"}) >= MaxConnections

\* C16 -- once the shutdown future has completed, every live handler, in
\* normal or in pub/sub mode, eventually returns and server::run eventually
\* returns.
ShutdownCompletes ==
    shutdown_future ~> (/\ rpc = "returned"
                        /\ \A c \in Conns : hst[c] \in {"none", "dropped"})

\* the shutdown future completed and server::run waits for the handlers; a
\* handler in normal mode and one in pub/sub mode have seen the shutdown and
\* returned
HandlersObservedShutdown ==
    /\ rpc = "drain"
    /\ shutdown_future
    /\ lpc = "cancelled"
    /\ \E c, d \in Conns :
          /\ hst[c] = "returned" /\ is_shutdown[c] /\ subscribed[c]
          /\ hst[d] = "returned" /\ is_shutdown[d] /\ ~subscribed[d]

\* the sleeps of one call of accept that fails again and again
Backoffs == <<1, 2, 4, 8, 16, 32, 64>>

\* C17 -- within one call of accept the failures are followed by sleeps of
\* 1, 2, 4, 8, 16, 32 and 64 seconds, never longer; the call fails only on
\* the failure that follows the sleep of 64 seconds.
AcceptBacksOffTo64 ==
    /\ Len(waits) <= Len(Backoffs)
    /\ \A i \in 1..Len(waits) : waits[i] = Backoffs[i] /\ waits[i] <= MaxBackoff
    /\ lpc = "failed" => waits = Backoffs

\* accept returned a socket after the sleep of 64 seconds
AcceptedAfter64 ==
    /\ lpc = "acquire"
    /\ waits = Backoffs
    /\ hst[1] = "select"

IsPrefix(p, q) == Len(p) <= Len(q) /\ SubSeq(q, 1, Len(p)) = p

\* C18 -- a successful read_frame removes from the front of the buffer
\* exactly the bytes of the frame it returns and leaves the bytes after them
\* in order; the frames buffered or arriving are returned one per call, in
\* the order they were written.
ReadFrameRemovesItsFrame ==
    /\ consumed = write_frames(received)
    /\ IsPrefix(received, sent)
    /\ IsPrefix(consumed \o buffer \o wire, write_frames(sent))
    /\ ~peer_closed => consumed \o buffer \o wire = write_frames(sent)

\* read_frame has returned the first of two frames that were both in the
\* buffer, and the bytes of the second are what it left there
SecondFrameLeftInBuffer ==
    /\ Len(sent) = MaxFrames
    /\ received = <<sent[1]>>
    /\ wire = <<>>
    /\ buffer = write_frames(Tail(sent))
    /\ rfpc = "parse"

\* the buffer holds the first bytes, but not all, of a well-formed frame
ProperPrefix(buf) ==
    /\ buf # <<>>
    /\ \E f \in FrameSamples :
          /\ ~IsPanic(write_frame(f))
          /\ Len(buf) < Len(write_frame(f))
          /\ IsPrefix(buf, write_frame(f))

AllArrived ==
    (~peer_closed /\ wire = <<>> /\ rfpc = "read") => (received = sent /\ buffer = <<>>)

PrefixStep ==
    (rfpc = "parse" /\ ProperPrefix(buffer))
    => (rfpc' \in {"parse", "read"} /\ buffer' = buffer /\ received' = received)

\* C19 -- incomplete input is not an error: with a proper prefix of a
\* well-formed frame buffered, parse_frame returns Ok(None), the buffer is
\* unchanged and read_frame goes on reading; once the remaining bytes have
\* arrived, however split, every frame written has been returned.
IncompleteIsNotAnError ==
    /\ [](rfpc # "error" /\ AllArrived)
    /\ [][PrefixStep]_vars

\* read_frame waits for more bytes with an array cut inside its first
\* element in the buffer
ArrayCutInsideElement ==
    /\ rfpc = "read"
    /\ buffer = <<"*", "2", CR, LF, "$", "1", CR>>
    /\ received = <<>>

\* C20 -- decoding the frame a command was encoded into gives the command
\* back, for every Get, Set (any byte value, any expiration), Publish, Ping,
\* Subscribe and Unsubscribe (any list of channels).
DecodeInvertsEncode ==
    decoded # None => decoded[1] = Ok(command[1])

\* what round-trips: every command but a SET whose value is not UTF-8 or
\* whose expiration is not a whole number of milliseconds, and a SUBSCRIBE
\* of no channel
RoundTrips(cmd) ==
    CASE cmd[1] = "Set" ->
            /\ cmd[3] \notin NotUtf8
            /\ cmd[4] # None => cmd[4][1] % NanosPerMilli = 0
      [] cmd[1] = "Subcribe" -> cmd[2] # <<>>
      [] OTHER -> TRUE

DecodeInvertsEncodeOfText ==
    decoded # None => (decoded[1] = Ok(command[1]) <=> RoundTrips(command[1]))

\* the failed tries of the current call of accept: one before each sleep,
\* and the one that made the call fail
FailedTries == Len(waits) + (IF lpc = "failed" THEN 1 ELSE 0)

\* what accept does: the try that makes it fail is the 8th consecutive one,
\* the wait before that try being 64 seconds
AcceptFailsOnEighthTry ==
    lpc = "failed" => FailedTries = 8 /\ waits[Len(waits)] = MaxBackoff

\* C27 -- accept returns with an error when accepting fails on the 6th
\* consecutive try, the wait before that try being 64 seconds.
AcceptFailsOnSixthTry ==
    lpc = "failed" => FailedTries = 6 /\ waits[Len(waits)] = MaxBackoff

\* Listener::run has failed with the error of accept, server::run has not
\* taken it yet
AcceptFailed ==
    /\ lpc = "failed"
    /\ rpc = "select"
    /\ waits = Backoffs

\* C28 -- once the drop guard of the store is torn down, the shutdown flag
\* is set and the purge worker eventually leaves its loop, wherever in the
\* loop it was and whether or not a notification of a SET was pending.
PurgeWorkerExits ==
    /\ [](guard # "held" => shutdown)
    /\ (guard # "held") ~> (wpc = "done")

\* the worker has left its loop after the teardown, with a notification
\* still stored in the Notify
WorkerDoneWithPermit ==
    /\ guard = "dropped"
    /\ wpc = "done"
    /\ permit

\* the keys whose entry this step wrote
KeysSet == {k \in DOMAIN entries' : k \notin DOMAIN entries \/ entries'[k] # entries[k]}

\* the condition of the notification, on the index as it was before the SET
EarlierThanIndex(expires_at) ==
    /\ expires_at # None
    /\ expirations = {} \/ expires_at[1] < Min({p[1] : p \in expirations})

\* a handler leaves the critical section of Db::set with a notification to
\* send exactly when the entry it wrote expires earlier than the whole index;
\* the Notify is untouched by that step
SetStepNotifies ==
    \A h \in Handlers :
        (hpc[h] = "idle" /\ KeysSet # {})
        => /\ \A k \in KeysSet :
                 hpc'[h] = hpc[h] \/ (hpc'[h] = "notify" <=> EarlierThanIndex(entries'[k].expires_at))
           /\ (\A g \in Handlers : hpc'[g] = hpc[g])
                 => \A k \in KeysSet : ~EarlierThanIndex(entries'[k].expires_at)
           /\ permit' = permit /\ waiter' = waiter

\* C30 -- set notifies the purge worker exactly when the new entry has an
\* expiry and the index was empty or the expiry is earlier than the minimum
\* of the index as it was before the set; the notification is sent after
\* the mutex has been released.
SetNotifiesWhenEarlier == [][SetStepNotifies]_vars

\* a SET with an expiry earlier than the one already in the index is about
\* to notify
EarlierSetAboutToNotify ==
    \E h \in Handlers :
        /\ hpc[h] = "notify"
        /\ Cardinality(expirations) = 2
        /\ Cardinality({p[1] : p \in expirations}) = 2
        /\ ~permit

\* the i-th Receiver of s has been overtaken: the channel no longer retains
\* the message at its cursor
Behind(s, i) == subs[s][i].next < Oldest(chanLog[subs[s][i].ch])

\* a Receiver of ch still has a whole buffer of messages to receive
BufferFull(ch) ==
    \E s \in Subs : \E i \in 1..Len(subs[s]) :
        /\ subs[s][i].ch = ch
        /\ Len(chanLog[ch]) - subs[s][i].next >= ChannelCapacity

\* this step is the handler of s forwarding a message of its i-th stream
Forwarded(s, i) ==
    /\ Len(subs'[s]) = Len(subs[s])
    /\ subs'[s][i].ch = subs[s][i].ch
    /\ subs'[s][i].next # subs[s][i].next
    /\ Len(out'[s]) = Len(out[s]) + 1
    /\ out'[s][Len(out'[s])][1] = "message"

\* a Receiver that was overtaken is handed the oldest message the channel
\* retains, and its subscription and the Sender's receiver count stay
LaggedReceiverResumes ==
    \A s \in Subs : \A i \in 1..Len(subs[s]) :
        (Behind(s, i) /\ Forwarded(s, i))
        => LET ch == subs[s][i].ch
               log == chanLog[ch]
           IN  /\ out'[s] = Append(out[s],
                       make_message_frame(ch, log[Oldest(log) + 1]))
               /\ subs'[s][i].next = Oldest(log) + 1
               /\ keys(subs'[s]) = keys(subs[s])
               /\ hmode'[s] = hmode[s]
               /\ rxCount' = rxCount
               /\ chanLog' = chanLog
               /\ lastPub' = lastPub

\* a PUBLISH on a channel with a slow Receiver is taken and answered with
\* the receiver count, leaving every cursor where it was
PublishIgnoresSlowReceivers ==
    \A ch \in Channels :
        (published' = Append(published, ch) /\ BufferFull(ch))
        => /\ chanLog' = [chanLog EXCEPT ![ch] = Append(@, Len(published) + 1)]
           /\ lastPub'[1] = Integer(rxCount[ch])
           /\ rxCount[ch] > 0
           /\ subs' = subs
           /\ out' = out

\* C24 -- a subscriber that falls behind the buffer of the broadcast channel
\* skips the messages it missed and resumes with the next message the
\* channel still holds, its subscription staying in place; a PUBLISH is
\* never blocked and never fails because a subscriber is slow.
LagIsSkipped ==
    /\ [](\A ch \in Channels : ops < MaxOps => ENABLED Publish(ch))
    /\ [][LaggedReceiverResumes /\ PublishIgnoresSlowReceivers]_vars

\* a subscriber that was overtaken on a channel is still subscribed and its
\* last frame is the newest message of that channel
ResumedAfterLag ==
    \E s \in Subs : \E ch \in lagged[s] :
        /\ ch \in KeySet(subs[s])
        /\ Len(chanLog[ch]) > ChannelCapacity
        /\ out[s] # <<>>
        /\ out[s][Len(out[s])] =
               make_message_frame(ch, chanLog[ch][Len(chanLog[ch])])

\* C29 -- publish holds the store mutex only long enough to look up and
\* clone the channel's sender: when the broadcast send happens, the mutex has
\* been released.
PublishSendsOffLock ==
    \A h \in Handlers : ppc[h] = "sent" => mutex # h

\* what Db::publish does: the send is made by the handler that holds the
\* mutex, and nothing else enters the store until publish has returned
PublishSendsUnderLock ==
    \A h \in Handlers : ppc[h] \in {"locked", "sent"} <=> mutex = h

\* the value the calls before call n, applied in the order they were issued,
\* leave at the key
RECURSIVE ValueAfter(_, _)
ValueAfter(n, key) ==
    IF n = 0 THEN None
    ELSE IF issued[n].cmd[1] = "Set" /\ issued[n].cmd[2] = key
    THEN Some(issued[n].cmd[3])
    ELSE ValueAfter(n - 1, key)

\* the result of call id when the server applies the calls in queue order
ExpectedResult(id) ==
    IF issued[id].cmd[1] = "Get"
    THEN Ok(ValueAfter(id - 1, issued[id].cmd[2]))
    ELSE Ok(None)

\* C26 -- with cloned handles of a BufferedClient issuing get and set
\* concurrently, the connection task has one request on the connection at a
\* time, sends the requests in queue order, and each caller receives the
\* response to its own command, also after another caller stopped waiting.
BufferedCallsAreSerialized ==
    /\ Len(requests) + Len(responses) <= 1
    /\ (requests # <<>> \/ responses # <<>>) => inflight # None
    /\ sent_ids = [i \in 1..Len(sent_ids) |-> i]
    /\ \A d \in delivered :
          /\ d[2] = d[1]
          /\ d[1] \notin gone
          /\ \/ d[3] = ExpectedResult(d[1])
             \/ /\ ~connected
                /\ d[3] \in {Err("connection reset by server"), Err("broken pipe")}
    /\ \A d, e \in delivered : d[1] = e[1] => d = e

\* two callers had calls in the channel together, the first stopped waiting
\* and the second was handed the value set before its GET
DeliveredAfterCallerGone ==
    \E d \in delivered :
        /\ d[1] > 1
        /\ (d[1] - 1) \in gone
        /\ issued[d[1] - 1].caller # issued[d[1]].caller
        /\ d[3] = Ok(Some("v2"))
        /\ connected

\* the connection has read no SUBSCRIBE: its handler is in Handler::run
NormalMode(c) ==
    \A k \in 1..Len(reqs[c]) :
        LET res == from_frame(reqs[c][k])
        IN  IsOk(res) => res[2][1] # "Subcribe"

\* the reply is the reply of the request's command
Answers(req, reply) ==
    LET res == from_frame(req)
        cmd == res[2]
    IN  /\ IsOk(res)
        /\ IF cmd[1] = "Ping" THEN reply = PingReply(cmd[2])
           ELSE IF cmd[1] = "Get" THEN reply[1] \in {"Bulk", "Null"}
           ELSE IF cmd[1] = "Set" THEN reply = Simple("OK")
           ELSE IF cmd[1] = "Publish" THEN reply[1] = "Integer"
           ELSE reply = UnknownReply(get_name(cmd))

\* the handler of c is in the write_frame of a reply, or has returned an
\* error
InWrite(c) ==
    \/ hst[c] = "apply" /\ cur[c] # None /\ cur[c][1].at = "write"
    \/ herr[c] # None /\ herr[c][1][1] = "Err"

\* the replies on the wire answer the requests read, one for one and in
\* order, the last request at most being unanswered; a reply is in the
\* BufWriter only while its write_frame is awaited
RepliesFollowRequests ==
    \A c \in Conns :
        NormalMode(c)
        => /\ wbuf[c] # <<>> => InWrite(c)
           /\ Len(reps[c]) <= Len(reqs[c])
           /\ Len(reqs[c]) <= Len(reps[c]) + 1
           /\ Len(reqs[c]) = Len(reps[c]) + 1
                 => hst[c] = "apply" \/ (herr[c] # None /\ herr[c][1][1] = "Err")
           /\ \A k \in 1..Len(reps[c]) : Answers(reqs[c][k], reps[c][k])

\* a request is read only when every request before it has its reply on
\* the wire
ReadsAfterReply ==
    \A c \in Conns :
        (NormalMode(c) /\ Len(reqs'[c]) > Len(reqs[c]))
        => Len(reps[c]) = Len(reqs[c])

\* C21 -- within one connection in normal mode the replies are written in
\* the order the requests were read: the k-th reply answers the k-th
\* request, and request k+1 is not read before reply k is written and
\* flushed.
RepliesInRequestOrder ==
    /\ []RepliesFollowRequests
    /\ [][ReadsAfterReply]_vars

\* a connection was sent two requests back to back and has been written
\* their two different replies
TwoRequestsAnswered ==
    \E c \in Conns :
        /\ NormalMode(c)
        /\ Len(reps[c]) = 2
        /\ reps[c][1] # reps[c][2]
        /\ reqs[c][1] = Array(<<Bulk("get"), Bulk("hello")>>)

\* the handler of c applies the command kind in this step: the command is
\* decoded and not yet in its write_frame, and the step is a step on it
Applying(c, kind) ==
    /\ hst[c] \in {"apply", "handle"}
    /\ cur[c] # None
    /\ cur[c][1].cmd[1] = kind
    /\ cur[c][1].at # "write"
    /\ cur'[c] # cur[c]

\* the write_frame of the reply to the command kind ends in this step
Writing(c, kind) ==
    /\ hst[c] = "apply"
    /\ cur[c] # None
    /\ cur[c][1].cmd[1] = kind
    /\ cur[c][1].at = "write"
    /\ cur'[c] = None

\* the State and the Notify are what they were
DbUnchanged ==
    /\ entries' = entries
    /\ expirations' = expirations
    /\ pub_sub' = pub_sub
    /\ rxCount' = rxCount
    /\ chanLog' = chanLog
    /\ permit' = permit
    /\ waiter' = waiter

\* the reply to a PING is made of the request frame alone, it is what the
\* write of the reply puts on the wire, and both steps leave the Db as it
\* was
PingStep ==
    \A c \in Conns :
        LET frame == reqs[c][Len(reqs[c])]
            reply == IF Len(frame[2]) = 1 THEN Simple("PONG")
                     ELSE Bulk(frame[2][2][2])
        IN  /\ Applying(c, "Ping")
               => wbuf'[c] = <<reply>> /\ reps'[c] = reps[c] /\ DbUnchanged
            /\ Writing(c, "Ping")
               => /\ herr'[c] = None => reps'[c] = Append(reps[c], reply)
                  /\ DbUnchanged

\* C22 -- PING without an argument is answered Simple("PONG"), PING with a
\* message is answered with a Bulk of exactly the bytes of the message, also
\* when they are not ASCII, and PING never reads or changes the store.
PingEchoes == [][PingStep]_vars

\* a PING carrying a byte that is not UTF-8 was answered with that byte,
\* next to a key in the store
PingEchoedBytes ==
    \E c \in Conns :
        /\ reps[c] # <<>>
        /\ reps[c][Len(reps[c])] = Bulk("0xff")
        /\ "hello" \in DOMAIN entries

\* the handler of c returns an error in this step
Failed(c) ==
    /\ herr[c] = None
    /\ herr'[c] # None
    /\ herr'[c][1][1] = "Err"

\* the key-space, the index, the Senders and the messages of their channels
\* are what they were; the Receivers of a handler go with it
StoreUnchanged ==
    /\ entries' = entries
    /\ expirations' = expirations
    /\ pub_sub' = pub_sub
    /\ chanLog' = chanLog

\* the step leaves the accept loop and every other connection alone
ErrorIsLocal(c) ==
    /\ lpc' = lpc
    /\ rpc' = rpc
    /\ available_permits' = available_permits
    /\ \A d \in Conns \ {c} :
          /\ hst'[d] = hst[d]
          /\ herr'[d] = herr[d]
          /\ sock'[d] = sock[d]
          /\ reqs'[d] = reqs[d]
          /\ reps'[d] = reps[d]
          /\ crx'[d] = crx[d]

\* the request the handler of c is at work on has changed the key-space or
\* the expiration index
RequestChangedStore(c) == cur[c] # None /\ cur[c][1].changed

\* C23 -- per-connection errors are local: a malformed frame, a decode
\* error or an I/O error ends only that connection's handler, is never
\* raised to the accept loop and leaves the other connections alone; the
\* store is left unchanged when the request fails before it is applied: a
\* request that changed the store fails only in the write of its reply.
ConnectionErrorsAreLocal ==
    /\ [](lpc # "failed" /\ rpc = "select")
    /\ [][\A c \in Conns :
             Failed(c) => /\ ErrorIsLocal(c)
                          /\ StoreUnchanged
                          /\ RequestChangedStore(c)
                                => cur[c][1].at = "write"]_vars

\* C23 as stated: the store is left unchanged by the failing request,
\* whatever the error.
FailingRequestLeavesStore ==
    [][\A c \in Conns :
         Failed(c) => /\ ErrorIsLocal(c)
                      /\ entries' = entries
                      /\ expirations' = expirations
                      /\ ~RequestChangedStore(c)]_vars

\* a connection ended on an error, the other one is served and the listener
\* is in accept again, with the permit the failed connection gave back
ServedAfterError ==
    /\ herr[1] # None
    /\ herr[1][1][1] = "Err"
    /\ hst[2] \in Running
    /\ reps[2] # <<>>
    /\ closed[2] = "open"
    /\ lpc = "accept"
    /\ available_permits = MaxConnections - 2

\* PUBLISH and SUBSCRIBE leave the key-space and the index alone, SET leaves
\* the Senders, their channels and the Receivers alone, GET changes nothing
NamespacesApart ==
    \A c \in Conns :
        /\ (Applying(c, "Publish") \/ Applying(c, "Subcribe"))
              => /\ entries' = entries
                 /\ expirations' = expirations
                 /\ GetReply(entries', "hello") = GetReply(entries, "hello")
                 /\ permit' = permit /\ waiter' = waiter
        /\ Applying(c, "Set")
              => /\ pub_sub' = pub_sub
                 /\ rxCount' = rxCount
                 /\ chanLog' = chanLog
                 /\ crx' = crx
        /\ Applying(c, "Get") => DbUnchanged /\ crx' = crx

\* C25 -- channel names have no relation to the key namespace: PUBLISH and
\* SUBSCRIBE on a name leave the key-space and the expiration index
\* unchanged, SET on that name leaves the pub/sub registry and every
\* subscription unchanged, and GET changes no shared state.
ChannelsAndKeysAreApart == [][NamespacesApart]_vars

\* the same name is a key with an expiry and a channel with a subscriber
NameIsKeyAndChannel ==
    /\ "hello" \in DOMAIN entries
    /\ expirations # {}
    /\ "hello" \in pub_sub
    /\ \E c \in Conns : Position(crx[c], "hello") # 0

\* a step of the purge worker through Shared::purge_expired_keys
PurgePass == wpc = "purge" /\ wpc' = "poll"

Later(k) == entries[k].expires_at = None \/ entries[k].expires_at[1] > now

\* C31 -- a purge pass run while the shutdown flag is not set removes every
\* index pair whose instant is <= now together with the key-space entry of its
\* key, removes no entry whose expires_at is later than now or absent, and
\* returns the smallest instant left in the index, none when the index is left
\* empty; a purge pass run with the shutdown flag set changes nothing.
PurgePassRemovesTheExpired ==
    [][PurgePass =>
         IF shutdown
         THEN /\ entries' = entries
              /\ expirations' = expirations
              /\ wwhen' = None
         ELSE /\ \A p \in expirations :
                    p[1] <= now => p \notin expirations' /\ p[2] \notin DOMAIN entries'
              /\ \A p \in expirations : p[1] > now => p \in expirations'
              /\ \A k \in DOMAIN entries :
                    Later(k) => k \in DOMAIN entries' /\ entries'[k] = entries[k]
              /\ wwhen' = IF expirations' = {} THEN None
                          ELSE Some(Min({p[1] : p \in expirations'}))]_vars

\* a purge pass has just removed a key and returned the instant, still to
\* come, of the pair it left in the index
PurgedAtItsInstant ==
    /\ wpc = "poll"
    /\ ~shutdown
    /\ purged # {}
    /\ expirations # {}
    /\ wwhen = next_expiration(expirations)
    /\ wwhen[1] > now

\* C32 -- get does not check the expiry instant: a GET of a key whose expiry
\* instant has passed but which the purge worker has not yet removed replies
\* Bulk of the value the key holds, not Null.
GetIgnoresExpiry ==
    replied # None =>
        LET r == replied[1]
        IN  r.stale => /\ r.frame = <<"Bulk", lastSet[r.key][1].data>>
                       /\ r.frame # <<"Null">>

\* the latest GET found an entry past its expiry instant, which the purge
\* worker has not removed since, and replied Bulk
GetOfExpiredKey ==
    /\ replied # None
    /\ replied[1].stale
    /\ replied[1].frame[1] = "Bulk"
    /\ IsExpired(replied[1].key)
    /\ entries[replied[1].key].expires_at[1] < now

\* the frames Connection::parse_frame reads from the bytes one after the
\* other, the bytes left over, and whether the bytes were well-formed
RECURSIVE FramesIn(_, _)
FramesIn(buf, frames) ==
    LET r == parse_frame(buf)
    IN  IF ~IsOk(r) THEN [ok |-> FALSE, frames |-> frames, rest |-> buf]
        ELSE IF r[2][1] = None THEN [ok |-> TRUE, frames |-> frames, rest |-> buf]
        ELSE FramesIn(r[2][2], Append(frames, r[2][1][1]))

IsMessage(frame) ==
    \E ch \in Channels : frame = FrameOf(make_message_frame(ch, "v1"))

IsAck(frame) ==
    \E ch \in Channels, n \in 0..Cardinality(Channels) :
        \/ frame = FrameOf(make_subscribe_frame(ch, n))
        \/ frame = FrameOf(make_unsubscribe_frame(ch, n))

\* the handler returned the error of a write
WriteFailed ==
    /\ sres # None
    /\ \E e \in WriteErrors : sres[1] = Err(e)

\* C33 -- the bytes written to a connection are always a concatenation of
\* whole frames: the bytes written, on the socket and in the BufWriter, decode
\* into the frames the handler wrote, in the order it wrote them, followed
\* at most by the beginning of the one frame being written; outside
\* write_frame nothing is left over, on a connection whose writes did not
\* fail, whatever the interleaving of publishes, client commands and
\* shutdown.
FramesAreNotInterleaved ==
    LET all == FramesIn(ssock \o sbuf, <<>>)
        n == Len(all.frames)
    IN  /\ swrite = None /\ sbuf = <<>>
              => /\ all.rest = <<>>
                 /\ all.frames = sapplied
        /\ sbuf # <<>> => swrite # None \/ WriteFailed
        /\ all.ok
        /\ n <= Len(sapplied)
        /\ all.frames = SubSeq(sapplied, 1, n)
        /\ all.rest # <<>> =>
              /\ n < Len(sapplied)
              /\ IsPrefix(all.rest, write_frame(sapplied[n + 1]))

\* in pub/sub mode, with the shutdown signal sent, the socket holds a
\* forwarded message between two acknowledgements, and a further frame is
\* partly in the BufWriter
MessageBetweenAcks ==
    /\ spc \in {"drain", "select", "unsub"}
    /\ ssignal
    /\ \E i \in 2..(Len(sapplied) - 1) :
          /\ IsAck(sapplied[i - 1])
          /\ IsMessage(sapplied[i])
          /\ IsAck(sapplied[i + 1])
          /\ FramesIn(ssock, <<>>).frames = SubSeq(sapplied, 1, i + 1)
    /\ sbuf # <<>>
    /\ swrite # None

\* C34 -- a handler returns on the shutdown signal only at a boundary between
\* frames: when it has returned, no reply frame is partly written, and every
\* command it applied has its whole reply on the socket.
ReturnsBetweenFrames ==
    sres = Some(Ok("shutdown")) =>
        /\ sbuf = <<>>
        /\ FramesIn(ssock, <<>>).frames = sapplied
        /\ FramesIn(ssock, <<>>).rest = <<>>

\* the handler returned on the shutdown signal after a SET it had read when
\* the signal was already sent: the store holds the value and OK is written
ReturnedAfterReply ==
    /\ sres = Some(Ok("shutdown"))
    /\ "hello" \in DOMAIN sentries
    /\ sapplied = <<FrameOf(Simple("OK"))>>
    /\ ssock = write_frame(FrameOf(Simple("OK")))

\* Handler::run reads an UNSUBSCRIBE in normal mode
ReadsUnsubscribeInRun ==
    /\ spc = "run"
    /\ sinput # <<>>
    /\ Head(sinput)[1] = "Unsubscribe"
    /\ sinput' = Tail(sinput)

\* C35 -- an UNSUBSCRIBE received in normal mode fails in apply with the error
\* "Unsubscribe is unsupported in this context.": no reply frame is written,
\* the store and the subscriptions are unchanged, and the handler ends.
UnsubscribeInNormalModeFails ==
    [][ReadsUnsubscribeInRun =>
          /\ sres' = Some(Err("Unsubscribe is unsupported in this context."))
          /\ spc' = "returned"
          /\ sapplied' = sapplied
          /\ ssock' = ssock
          /\ sbuf' = sbuf
          /\ swrite' = None
          /\ sentries' = sentries
          /\ ssubs' = ssubs]_vars

\* the handler answered a GET with Null and ended on the UNSUBSCRIBE after it
EndedOnUnsubscribe ==
    /\ sres = Some(Err("Unsubscribe is unsupported in this context."))
    /\ ssock = write_frame(Null)
    /\ sapplied = <<Null>>
    /\ sinput = <<>>

PubSubPositions == {"drain", "select", "unsub"}

\* the handler reads a GET, SET or PUBLISH in pub/sub mode
ReadsOtherInPubSub ==
    /\ spc \in PubSubPositions
    /\ sinput # <<>>
    /\ Head(sinput)[1] \in {"Get", "Set", "Publish"}
    /\ sinput' = Tail(sinput)

\* C36 -- pub/sub mode is never left while the connection is open: once a
\* SUBSCRIBE has been applied every later frame is handled by the pub/sub
\* command handler, also when no subscription is left, so a later GET, SET or
\* PUBLISH is answered with an unknown-command Error frame and does not touch
\* the store.
PubSubModeIsNeverLeft ==
    /\ [][(spc \in PubSubPositions) =>
             (spc' \in PubSubPositions \/ spc' = "returned")]_vars
    /\ [][ReadsOtherInPubSub =>
             /\ sapplied' = Append(sapplied,
                   FrameOf(Error("ERR unknown command '"
                                 \o get_name(Head(sinput)) \o "'")))
             /\ sentries' = sentries
             /\ sres' = None]_vars

\* after the connection unsubscribed from its only channel a SET was answered
\* with the Error frame, which is on the socket, and the store is empty
SetRejectedWithoutSubscriptions ==
    /\ spc \in PubSubPositions
    /\ ssubs = <<>>
    /\ Len(sapplied) = 3
    /\ sapplied[3] = FrameOf(Error("ERR unknown command 'set'"))
    /\ ssock = write_frames(sapplied)
    /\ sentries = <<>>

\* the connections whose StreamMap has an entry of the channel
Subscribed(ch) == {s \in Subs : ch \in KeySet(subs[s])}

\* the messages of channel ch among the frames written to connection s
MessagesOf(s, ch) ==
    {i \in 1..Len(out[s]) : out[s][i][1] = "message" /\ out[s][i][2] = ch}

\* subscibe_to_channel inserts the stream of a channel the connection is
\* subscribed to already
Resubscribes(s) ==
    /\ newrx[s] # None
    /\ newrx[s][1].ch \in KeySet(subs[s])
    /\ newrx'[s] = None

\* C37 -- a connection holds at most one receiver endpoint per channel:
\* subscribing again to a channel it is subscribed to replaces the endpoint,
\* the acknowledgement carries the unchanged subscription count, and afterwards
\* a PUBLISH on the channel counts the connection once and its message is
\* forwarded to the connection once.
OneReceiverPerChannel ==
    /\ [](\A s \in Subs : \A i, j \in 1..Len(subs[s]) :
             subs[s][i].ch = subs[s][j].ch => i = j)
    /\ [](\A ch \in Channels :
             rxCount[ch] = Cardinality(Subscribed(ch))
                 + Cardinality({s \in Subs : newrx[s] # None /\ newrx[s][1].ch = ch}))
    /\ [](\A s \in Subs, ch \in Channels : \A i, j \in MessagesOf(s, ch) :
             out[s][i] = out[s][j] => i = j)
    /\ [][\A s \in Subs : Resubscribes(s) =>
             /\ Len(subs'[s]) = Len(subs[s])
             /\ subs'[s][Len(subs'[s])] = newrx[s][1]
             /\ out'[s] = Append(out[s],
                   make_subscribe_frame(newrx[s][1].ch, Len(subs[s])))]_vars

\* SUBSCRIBE hello hello was acknowledged twice with the count 1, the PUBLISH
\* after it replied 1, and its message was forwarded once
PublishedAfterResubscribe ==
    \E s \in Subs :
        /\ out[s] = <<make_subscribe_frame("hello", 1),
                      make_subscribe_frame("hello", 1),
                      make_message_frame("hello", 1)>>
        /\ lastPub # <<>>
        /\ lastPub[1] = <<"Integer", 1>>
        /\ published = <<"hello">>

\* the task of connection c has been spawned and has not ended
TaskAlive(c) == hst[c] \notin {"none", "dropped"}

\* C38 -- the shutdown flag of the store is set only after the drain barrier
\* has completed: while the task of any connection handler is alive the flag
\* is false, the drop guard is in place and the purge worker has not left its
\* loop.
FlagSetAfterDrain ==
    (\E c \in Conns : TaskAlive(c)) =>
        /\ ~shutdown
        /\ guard = "held"
        /\ wpc # "done"

\* the shutdown future has completed and server::run waits at the barrier for
\* a handler that is applying a command, while the purge worker is parked
DrainingWithWorker ==
    /\ rpc = "drain"
    /\ \E c \in Conns : hst[c] = "apply"
    /\ wpc = "waiting"
    /\ ~shutdown

\* server::run has returned, the flag is set and the purge worker has ended
FlagSetAfterReturn ==
    /\ rpc = "returned"
    /\ shutdown
    /\ wpc = "done"
    /\ \E c \in Conns : hst[c] = "dropped"

\* every call of client s so far has returned Ok, and its handler has
\* processed every command the calls wrote
Settled(s) ==
    /\ cmode[s] = "subscriber"
    /\ ccall[s][1].res = "Ok"
    /\ ~SomeFailed(s)
    /\ inbox[s] = <<>>
    /\ AtSelect(s)

\* after successful calls the channels named in the client's list are the
\* channels of the server's subscription map of the connection
ClientChannelsMatchServer ==
    \A s \in Subs : Settled(s) => Range(clist[s]) = KeySet(subs[s])

\* C39 -- after any sequence of successful Client::subscribe,
\* Subscriber::subscibe and Subscriber::unsubscribe calls on one connection the
\* client's subscribed-channel list contains exactly the channels of the
\* server's subscription map of the connection, each once.
ClientListMatchesServer ==
    \A s \in Subs :
        Settled(s) =>
            /\ Range(clist[s]) = KeySet(subs[s])
            /\ \A i, j \in 1..Len(clist[s]) : clist[s][i] = clist[s][j] => i = j

\* ---------------------------------------------------------------------
\* arbitrary bytes on the connection

MaxRaw == 6

\* the bytes a peer may send, well-formed or not
RawBytes == {"$", "-", "0", "1", CR, LF}

\* a peer writes one byte to the socket
RawByte(b) ==
    /\ ~peer_closed
    /\ Len(consumed) + Len(buffer) + Len(wire) < MaxRaw
    /\ wire' = Append(wire, b)
    /\ UNCHANGED <<sent, peer_closed, buffer, consumed, received, rfpc>>
    /\ UNCHANGED otherThanCodec

RawNext ==
    \/ \E b \in RawBytes : RawByte(b)
    \/ ParseFrame
    \/ \E n \in 1..Len(wire) : ReadBuf(n)
    \/ PeerCloses
    \/ ReadBufEof

RawSpec == Init /\ [][RawNext]_vars

\* Frame::check and Frame::parse on the buffered bytes end at the same cursor
\* whenever check succeeds
Agree(buf) ==
    LET c == check(buf, 0)
        f == parse(buf, 0)
    IN IsOk(c) => IsOk(f) /\ f[2][2] = c[2]

\* on buffers that do not start with '$-' check and parse agree, bulk frames
\* whose payload is not followed by CR LF included
CheckAndParseAgreeOffNull ==
    (rfpc = "parse" /\ ~IsPrefix(<<"$", "-">>, buffer)) => Agree(buffer)

\* a bulk frame whose payload is not followed by CR LF has been taken from
\* the buffer
BulkWithoutCrLfParsed ==
    /\ received = <<Bulk(<<>>)>>
    /\ consumed = <<"$", "0", CR, LF, "0", "0">>

\* C40 -- check and parse agree on every byte buffer: whenever Frame::check
\* succeeds on the buffered bytes, Frame::parse on the same bytes returns a
\* frame and ends at the cursor position check reached, buffers starting
\* with '$-' included.
CheckAndParseAgree ==
    rfpc = "parse" => Agree(buffer)

====
